---------------------------- MODULE Spec2Model ----------------------------
(***************************************************************************)
(* A model of django_permission_engine: the permission registry            *)
(* (registry.py), the persisted Permission / UserPermission tables and     *)
(* their cache-invalidating signal handlers (models.py), the grant         *)
(* management operations (permission_management.py, helpers.py) and the    *)
(* runtime resolver (permissions.py).                                      *)
(*                                                                         *)
(* Strings are TLA+ strings handled character by character (Len, SubSeq,   *)
(* \o), so that building a key, splitting it, matching it against the key  *)
(* pattern and title-casing a label are computed as the code computes them.*)
(***************************************************************************)
EXTENDS Integers, Sequences, FiniteSets, TLC

VARIABLES
    modules,              \* PermissionRegistry._modules: name -> ModuleDefinition
    permissions,          \* PermissionRegistry._permissions: dict in insertion order,
                          \*   a sequence of PermissionDefinition records with distinct keys
    orphan_action,        \* PermissionRegistry.orphan_action
    upr_permissions,      \* the Permission table (db_table "upr_permissions"): a set of rows
    upr_user_permissions, \* the UserPermission table: a set of [user, permission] rows,
                          \*   the permission named by its (immutable, unique) key
    cache,                \* the django cache: cache key -> Miss or Hit(value)
    writes,               \* number of direct Permission writes made so far (bounded)
    last                  \* the last operation with its arguments and its return value

vars == <<modules, permissions, orphan_action, upr_permissions,
          upr_user_permissions, cache, writes, last>>

registryVars == <<modules, permissions, orphan_action>>
storeVars == <<upr_permissions, upr_user_permissions>>

---------------------------------------------------------------------------
(* Bounds of the model *)

\* user ids are 1..NumUsers
NumUsers == 1
\* at most MaxWrites direct writes of Permission rows (create / save outside sync)
MaxWrites == 2

---------------------------------------------------------------------------
(* Strings *)

Char(s, i) == SubSeq(s, i, i)

Chars(s) == {Char(s, i) : i \in 1..Len(s)}

LowerLetters == "abcdefghijklmnopqrstuvwxyz"
UpperLetters == "ABCDEFGHIJKLMNOPQRSTUVWXYZ"
Digits == "0123456789"

\* the character class [a-z0-9_]
IdentChars == Chars(LowerLetters) \cup Chars(Digits) \cup {"_"}

None == "<None>"

Range(f) == {f[i] : i \in DOMAIN f}

\* c in s.  (Python: "." in key)
Contains(s, c) == \E i \in 1..Len(s) : Char(s, i) = c

\* index of the first occurrence of c in s at or after i (s contains c there)
RECURSIVE IndexFrom(_, _, _)
IndexFrom(s, c, i) == IF Char(s, i) = c THEN i ELSE IndexFrom(s, c, i + 1)

\* index of the first occurrence of c in s (s contains c)
FirstIndex(s, c) == IndexFrom(s, c, 1)

\* key.split(".", 1) for a key that contains a dot: <<text before the first dot, the rest>>
SplitFirst(s) ==
    LET i == FirstIndex(s, ".")
    IN  <<SubSeq(s, 1, i - 1), SubSeq(s, i + 1, Len(s))>>

\* key.split("."): every dot separates
RECURSIVE SplitDots(_)
SplitDots(s) ==
    IF ~Contains(s, ".") THEN <<s>>
    ELSE LET p == SplitFirst(s) IN <<p[1]>> \o SplitDots(p[2])

\* re.match(r"^[a-z0-9_]+$", part): Python's $ also matches before one trailing newline
MatchIdent(part) ==
    LET n == Len(part)
        core == IF n > 0 /\ Char(part, n) = "\n" THEN SubSeq(part, 1, n - 1) ELSE part
    IN  Len(core) > 0 /\ Chars(core) \subseteq IdentChars

\* re.match(r"^[a-z0-9_]+(\.[a-z0-9_]+)+$", key).  The inner segments take no newline,
\* the last one may be followed by one (Python's $).
MatchKeyPattern(key) ==
    LET parts == SplitDots(key)
        n == Len(parts)
    IN  /\ n >= 2
        /\ \A i \in 1..(n - 1) : Len(parts[i]) > 0 /\ Chars(parts[i]) \subseteq IdentChars
        /\ MatchIdent(parts[n])

LowerSet == Chars(LowerLetters)
UpperSet == Chars(UpperLetters)
UpperOf == [c \in LowerSet |-> Char(UpperLetters, FirstIndex(LowerLetters, c))]
LowerOf == [c \in UpperSet |-> Char(LowerLetters, FirstIndex(UpperLetters, c))]

IsLower(c) == c \in LowerSet
IsUpper(c) == c \in UpperSet
IsCased(c) == IsLower(c) \/ IsUpper(c)

\* str.upper / str.lower of one character
Upper(c) == IF IsLower(c) THEN UpperOf[c] ELSE c
Lower(c) == IF IsUpper(c) THEN LowerOf[c] ELSE c

\* str.title(): a cased character is upper-cased when it starts a word (is not preceded
\* by a cased character) and lower-cased otherwise
RECURSIVE TitleFrom(_, _, _)
TitleFrom(s, i, prevCased) ==
    IF i > Len(s) THEN ""
    ELSE LET c == Char(s, i)
         IN  (IF prevCased THEN Lower(c) ELSE Upper(c)) \o TitleFrom(s, i + 1, IsCased(c))

Title(s) == TitleFrom(s, 1, FALSE)

\* str.replace(old, new) for a one-character old
RECURSIVE ReplaceChar(_, _, _)
ReplaceChar(s, old, new) ==
    IF Len(s) = 0 THEN ""
    ELSE (IF Char(s, 1) = old THEN new ELSE Char(s, 1))
         \o ReplaceChar(SubSeq(s, 2, Len(s)), old, new)


---------------------------------------------------------------------------
(* Registry: registry.py *)

STANDARD_CRUD == <<"view", "create", "update", "delete">>

\* PermissionDefinition(key, module, capability, label, description="", type)
PermissionDefinition(key, module, capability, label, type) ==
    [key |-> key, module |-> module, capability |-> capability, label |-> label,
     description |-> "", type |-> type]

\* ModuleDefinition(name, crud, actions, label=None, description=None)
ModuleDefinition(name, crud, actions) ==
    [name |-> name, crud |-> crud, actions |-> actions,
     label |-> Title(name), description |-> ""]

\* _generate_crud_label: labels.get(capability, capability)
GenerateCrudLabel(capability, module) ==
    CASE capability = "view"   -> "View " \o Title(module)
      [] capability = "create" -> "Create " \o Title(module)
      [] capability = "update" -> "Update " \o Title(module)
      [] capability = "delete" -> "Delete " \o Title(module)
      [] OTHER -> capability

\* _generate_action_label
GenerateActionLabel(action, module) ==
    Title(ReplaceChar(action, "_", " ")) \o " " \o Title(module)

\* f"{module}.{capability}"
ConstructKey(module, capability) == module \o "." \o capability

DictKeys(d) == {d[i].key : i \in DOMAIN d}

\* d[key]
DictGet(d, key) == d[CHOOSE i \in DOMAIN d : d[i].key = key]

\* d[key] = value on an insertion-ordered dict: an existing key keeps its place
DictSet(d, value) ==
    IF value.key \in DictKeys(d)
    THEN [i \in DOMAIN d |-> IF d[i].key = value.key THEN value ELSE d[i]]
    ELSE Append(d, value)

\* the loop over module_def.crud of _generate_module_permissions, from index i:
\* an entry outside STANDARD_CRUD raises, the entries before it are already stored
RECURSIVE GenerateCrud(_, _, _)
GenerateCrud(perms, module_def, i) ==
    IF i > Len(module_def.crud) THEN [perms |-> perms, raised |-> "none"]
    ELSE LET capability == module_def.crud[i]
         IN  IF capability \notin Range(STANDARD_CRUD)
             THEN [perms |-> perms, raised |-> "ValidationError"]
             ELSE GenerateCrud(
                    DictSet(perms,
                            PermissionDefinition(
                                ConstructKey(module_def.name, capability),
                                module_def.name, capability,
                                GenerateCrudLabel(capability, module_def.name),
                                "crud")),
                    module_def, i + 1)

\* faulty variant: the definitions of the actions are appended, not stored under their key
RECURSIVE GenerateActionsAppend(_, _, _)
GenerateActionsAppend(perms, module_def, i) ==
    IF i > Len(module_def.actions) THEN perms
    ELSE LET action == module_def.actions[i]
         IN  GenerateActionsAppend(
                Append(perms,
                       PermissionDefinition(
                           ConstructKey(module_def.name, action),
                           module_def.name, action,
                           GenerateActionLabel(action, module_def.name),
                           "action")),
                module_def, i + 1)

\* the loop over module_def.actions of _generate_module_permissions, from index i
RECURSIVE GenerateActions(_, _, _)
GenerateActions(perms, module_def, i) ==
    IF i > Len(module_def.actions) THEN perms
    ELSE LET action == module_def.actions[i]
         IN  GenerateActions(
                DictSet(perms,
                        PermissionDefinition(
                            ConstructKey(module_def.name, action),
                            module_def.name, action,
                            GenerateActionLabel(action, module_def.name),
                            "action")),
                module_def, i + 1)

\* _generate_module_permissions: [perms, raised]
GenerateModulePermissions(perms, module_def) ==
    LET c == GenerateCrud(perms, module_def, 1)
    IN  IF c.raised # "none" THEN c
        ELSE [perms |-> GenerateActions(c.perms, module_def, 1), raised |-> "none"]

\* faulty variant: register_module without the duplicate test
NeverRegistered(mods, module_name) == FALSE

\* "if module_name in self._modules"
IsRegistered(mods, module_name) == module_name \in DOMAIN mods

\* the registry as an operation found it (kept in the record of the operation)
RegistryBefore == [modules |-> modules, permissions |-> permissions]

\* register_module(module_name, crud, actions); decorated is kept in the record of the
\* call: the @action declarations the call came from (none for a direct call)
RegisterModuleStep(module_name, crud, actions, decorated) ==
    /\ IF IsRegistered(modules, module_name)
       THEN /\ UNCHANGED <<modules, permissions>>
            /\ last' = [op |-> "register_module", module |-> module_name,
                        crud |-> crud, actions |-> actions, decorated |-> decorated,
                        raised |-> "ValueError", before |-> RegistryBefore]
       ELSE LET module_def == ModuleDefinition(module_name, crud, actions)
                g == GenerateModulePermissions(permissions, module_def)
            IN  /\ modules' = (module_name :> module_def) @@ modules
                /\ permissions' = g.perms
                /\ last' = [op |-> "register_module", module |-> module_name,
                            crud |-> crud, actions |-> actions, decorated |-> decorated,
                            raised |-> g.raised, before |-> RegistryBefore]
    /\ UNCHANGED <<orphan_action, upr_permissions, upr_user_permissions, cache, writes>>

\* registry.register_module(module_name, crud=..., actions=...)
RegisterModule(module_name, crud, actions) ==
    RegisterModuleStep(module_name, crud, actions, <<>>)

\* @action(name, label=...): the metadata it stores on the method
ActionDecorator(name, label) == [name |-> name, label |-> label]

\* the loop of module.decorator over dir(cls), from index i: the name of a decorated
\* method is appended unless the list has it
RECURSIVE CollectActions(_, _, _)
CollectActions(actions, decorated, i) ==
    IF i > Len(decorated) THEN actions
    ELSE CollectActions(IF decorated[i].name \in Range(actions) THEN actions
                        ELSE Append(actions, decorated[i].name),
                        decorated, i + 1)

\* list(set(actions)): the distinct names, in an order the build chooses
ListOfSet(names) == {order \in [1..Cardinality(names) -> names] : Range(order) = names}

\* @module(name) on a class with attributes crud and actions and @action methods
ModuleDecorator(name, crud, actions, decorated) ==
    \E order \in ListOfSet(Range(CollectActions(actions, decorated, 1))) :
        RegisterModuleStep(name, crud, order, decorated)

\* get_all_permission_keys
GetAllPermissionKeys == DictKeys(permissions)

\* get_module_permissions(module): the definitions of the module, in dict order
GetModulePermissions(perms, module) == SelectSeq(perms, LAMBDA d : d.module = module)

\* the first loop of validate, from index i: the error strings it appends
RECURSIVE ValidateKeys(_, _)
ValidateKeys(perms, i) ==
    IF i > Len(perms) THEN <<>>
    ELSE LET d == perms[i]
         IN  (IF ~Contains(d.key, ".")
              THEN <<"Invalid permission key format: " \o d.key>> ELSE <<>>)
             \o (IF d.key # ConstructKey(d.module, d.capability)
                 THEN <<"Permission key '" \o d.key \o "' does not match module.capability">>
                 ELSE <<>>)
             \o ValidateKeys(perms, i + 1)

\* validate(): the list of error strings
ValidateErrors(perms) ==
    ValidateKeys(perms, 1)
    \o (IF Len(perms) # Cardinality(DictKeys(perms))
        THEN <<"Duplicate permission keys found">> ELSE <<>>)

\* a call of registry.validate()
Validate ==
    /\ last' = [op |-> "validate", errors |-> ValidateErrors(permissions)]
    /\ UNCHANGED <<modules, permissions, orphan_action, upr_permissions,
                   upr_user_permissions, cache, writes>>


---------------------------------------------------------------------------
(* The cache and the signal handlers of models.py *)

Users == 1..NumUsers

\* cache.get(key) is None / a value
Miss == <<>>
Hit(value) == <<value>>

\* f'user_permissions:{user.id}'
UserCacheKey(user_id) == "user_permissions:" \o ToString(user_id)

CATALOG_KEY == "permission_catalog"

CacheKeys == {UserCacheKey(u) : u \in Users} \cup {CATALOG_KEY}

\* cache.delete(key)
CacheDelete(c, key) == [c EXCEPT ![key] = Miss]

\* cache.set(key, value, timeout)
CacheSet(c, key, value) == [c EXCEPT ![key] = Hit(value)]

\* faulty variant: the UserPermission signal handler is not connected
NoInvalidateUserPermissionCache(c, user_id) == c

\* @receiver([post_save, post_delete], sender=UserPermission)
invalidate_user_permission_cache(c, user_id) == CacheDelete(c, UserCacheKey(user_id))

\* @receiver([post_save, post_delete], sender=Permission)
invalidate_permission_cache(c) == CacheDelete(c, CATALOG_KEY)

\* the UserPermission signal sent once for each user of a set of rows
RECURSIVE InvalidateUsers(_, _)
InvalidateUsers(c, user_ids) ==
    IF user_ids = {} THEN c
    ELSE LET u == CHOOSE x \in user_ids : TRUE
         IN  InvalidateUsers(invalidate_user_permission_cache(c, u), user_ids \ {u})

---------------------------------------------------------------------------
(* The Permission model: models.py *)

KeyMaxLength == 255
ModuleMaxLength == 100
CapabilityMaxLength == 100
LabelMaxLength == 255

Keys(rows) == {r.key : r \in rows}

RowOf(rows, key) == CHOOSE r \in rows : r.key = key

\* Permission.clean: TRUE iff it raises no ValidationError
Clean(row) ==
    /\ row.key # ""
    /\ Contains(row.key, ".")
    /\ LET p == SplitFirst(row.key)
       IN  /\ row.module = "" \/ row.module = p[1]
           /\ row.capability = "" \/ row.capability = p[2]
    /\ MatchKeyPattern(row.key)

\* Model.clean_fields: blank=False and max_length of the CharFields
CleanFields(row) ==
    /\ row.key # "" /\ Len(row.key) <= KeyMaxLength
    /\ row.module # "" /\ Len(row.module) <= ModuleMaxLength
    /\ row.capability # "" /\ Len(row.capability) <= CapabilityMaxLength
    /\ row.label # "" /\ Len(row.label) <= LabelMaxLength

\* Model.validate_unique: key is unique among the other rows
ValidateUnique(row, others) == row.key \notin Keys(others)

\* Model.full_clean
FullClean(row, others) ==
    CleanFields(row) /\ Clean(row) /\ ValidateUnique(row, others)

\* faulty variant: the key is split at its last dot (rsplit)
AutoPopulateLastDot(row) ==
    IF row.key # "" /\ Contains(row.key, ".")
    THEN LET i == CHOOSE j \in 1..Len(row.key) :
                     /\ Char(row.key, j) = "."
                     /\ \A k \in (j + 1)..Len(row.key) : Char(row.key, k) # "."
         IN  [row EXCEPT !.module = IF row.module = "" THEN SubSeq(row.key, 1, i - 1)
                                    ELSE row.module,
                         !.capability = IF row.capability = ""
                                        THEN SubSeq(row.key, i + 1, Len(row.key))
                                        ELSE row.capability]
    ELSE row

\* Permission.save, "Auto-populate module and capability from key"
AutoPopulate(row) ==
    IF row.key # "" /\ Contains(row.key, ".")
    THEN LET p == SplitFirst(row.key)
         IN  [row EXCEPT !.module = IF row.module = "" THEN p[1] ELSE row.module,
                         !.capability = IF row.capability = "" THEN p[2]
                                        ELSE row.capability]
    ELSE row

\* Permission.save of a new instance (no pk) into rows: [rows, raised]
SaveNew(instance, rows) ==
    LET row == AutoPopulate(instance)
    IN  IF FullClean(row, rows)
        THEN [rows |-> rows \cup {row}, raised |-> "none"]
        ELSE [rows |-> rows, raised |-> "ValidationError"]

\* faulty variant: save without the comparison of the key with the stored key
SaveExistingNoKeyCheck(original, instance, rows) ==
    LET row == AutoPopulate(instance)
    IN  IF FullClean(row, rows \ {original})
        THEN [rows |-> (rows \ {original}) \cup {row}, raised |-> "none"]
        ELSE [rows |-> rows, raised |-> "ValidationError"]

\* Permission.save of an instance loaded as row original: [rows, raised]
SaveExisting(original, instance, rows) ==
    IF instance.key # original.key
    THEN [rows |-> rows, raised |-> "ValidationError"]
    ELSE LET row == AutoPopulate(instance)
         IN  IF FullClean(row, rows \ {original})
             THEN [rows |-> (rows \ {original}) \cup {row}, raised |-> "none"]
             ELSE [rows |-> rows, raised |-> "ValidationError"]

\* Permission.objects.create(key=..., module=..., ...), outside sync
CreatePermission(key, module, capability, label, description, is_active, is_deprecated) ==
    /\ writes < MaxWrites
    /\ writes' = writes + 1
    /\ LET s == SaveNew([key |-> key, module |-> module, capability |-> capability,
                         label |-> label, description |-> description,
                         is_active |-> is_active, is_deprecated |-> is_deprecated],
                        upr_permissions)
       IN  /\ upr_permissions' = s.rows
           /\ cache' = IF s.raised = "none" THEN invalidate_permission_cache(cache)
                       ELSE cache
           /\ last' = [op |-> "create_permission", key |-> key, module |-> module,
                       capability |-> capability, label |-> label,
                       existed |-> key \in Keys(upr_permissions), raised |-> s.raised]
    /\ UNCHANGED <<modules, permissions, orphan_action, upr_user_permissions>>


\* permission = Permission.objects.get(...); fields of permission are assigned, giving
\* instance; permission.save()
SavePermission(original, instance) ==
    /\ original \in upr_permissions
    /\ writes < MaxWrites
    /\ writes' = writes + 1
    /\ LET s == SaveExisting(original, instance, upr_permissions)
       IN  /\ upr_permissions' = s.rows
           /\ cache' = IF s.raised = "none" THEN invalidate_permission_cache(cache)
                       ELSE cache
           /\ last' = [op |-> "save", original |-> original, instance |-> instance,
                       raised |-> s.raised, before |-> upr_permissions]
    /\ UNCHANGED <<modules, permissions, orphan_action, upr_user_permissions>>

---------------------------------------------------------------------------
(* Synchronisation: registry.py, sync / _plan_sync / _execute_sync *)

\* faulty variant: the state flags of the row are not looked at
MetadataChangedTextOnly(existing, definition) ==
    \/ existing.label # definition.label
    \/ existing.description # definition.description

\* _metadata_changed(existing, definition)
MetadataChanged(existing, definition) ==
    \/ existing.label # definition.label
    \/ existing.description # definition.description
    \/ existing.is_active = FALSE
    \/ existing.is_deprecated # (definition.type = "deprecated")

\* _plan_sync(definitions, db_permissions).  create and update hold definitions in the
\* order of the definitions dict; orphaned holds rows (their order, that of
\* Permission.objects.all(), is left out: nothing below depends on it).
PlanSync(definitions, rows) ==
    [create |-> SelectSeq(definitions, LAMBDA d : d.key \notin Keys(rows)),
     update |-> SelectSeq(definitions,
                          LAMBDA d : /\ d.key \in Keys(rows)
                                     /\ MetadataChanged(RowOf(rows, d.key), d)),
     orphaned |-> {r \in rows : r.key \notin DictKeys(definitions)}]

KeysOfSeq(defs) == [i \in DOMAIN defs |-> defs[i].key]

\* "Create new permissions": Permission.objects.create for plan["create"][i..]; the
\* first create that raises ends the loop
RECURSIVE ExecuteCreates(_, _, _, _)
ExecuteCreates(create, i, rows, created) ==
    IF i > Len(create) THEN [rows |-> rows, created |-> created, raised |-> "none"]
    ELSE LET d == create[i]
             s == SaveNew([key |-> d.key, module |-> d.module,
                           capability |-> d.capability, label |-> d.label,
                           description |-> d.description, is_active |-> TRUE,
                           is_deprecated |-> FALSE], rows)
         IN  IF s.raised # "none"
             THEN [rows |-> rows, created |-> created, raised |-> s.raised]
             ELSE ExecuteCreates(create, i + 1, s.rows, Append(created, d.key))

\* "Update existing permissions": Permission.objects.filter(key=...).update(...), which
\* validates nothing and sends no signal
RECURSIVE ExecuteUpdates(_, _, _)
ExecuteUpdates(update, i, rows) ==
    IF i > Len(update) THEN rows
    ELSE LET d == update[i]
         IN  ExecuteUpdates(update, i + 1,
                {IF r.key = d.key
                 THEN [r EXCEPT !.label = d.label, !.description = d.description,
                                !.is_active = TRUE]
                 ELSE r : r \in rows})

\* faulty variant: orphans are deleted under every policy
ExecuteOrphansAlwaysDelete(orphans, policy, rows, grants, c) ==
    [rows |-> rows \ orphans,
     grants |-> {g \in grants : g.permission \notin Keys(orphans)},
     cache |-> c, orphaned |-> Keys(orphans), raised |-> "none"]

\* "Handle orphaned permissions".  orphan_action is the same for every orphan, so the
\* loop deletes all of them, raises at the first, or lists all of them.
\* permission.delete() cascades to the UserPermission rows of the permission and sends
\* post_delete for each of them and for the permission.
ExecuteOrphans(orphans, policy, rows, grants, c) ==
    CASE policy = "delete" /\ orphans # {} ->
            LET gone == {g \in grants : g.permission \in Keys(orphans)}
            IN  [rows |-> rows \ orphans, grants |-> grants \ gone,
                 cache |-> invalidate_permission_cache(
                              InvalidateUsers(c, {g.user : g \in gone})),
                 orphaned |-> Keys(orphans), raised |-> "none"]
      [] policy = "error" /\ orphans # {} ->
            [rows |-> rows, grants |-> grants, cache |-> c, orphaned |-> {},
             raised |-> "ValidationError"]
      [] policy = "warn" ->
            [rows |-> rows, grants |-> grants, cache |-> c,
             orphaned |-> Keys(orphans), raised |-> "none"]
      [] OTHER ->
            [rows |-> rows, grants |-> grants, cache |-> c, orphaned |-> {},
             raised |-> "none"]

\* _execute_sync(plan), run on the tables as the transaction sees them
ExecuteSync(plan, policy, rows, grants, c) ==
    LET cr == ExecuteCreates(plan.create, 1, rows, <<>>)
        c1 == IF cr.created # <<>> THEN invalidate_permission_cache(c) ELSE c
    IN  IF cr.raised # "none"
        THEN [rows |-> cr.rows, grants |-> grants, cache |-> c1, raised |-> cr.raised,
              created |-> cr.created, updated |-> <<>>, orphaned |-> {}]
        ELSE LET up == ExecuteUpdates(plan.update, 1, cr.rows)
                 o == ExecuteOrphans(plan.orphaned, policy, up, grants, c1)
             IN  [rows |-> o.rows, grants |-> o.grants, cache |-> o.cache,
                  raised |-> o.raised, created |-> cr.created,
                  updated |-> KeysOfSeq(plan.update), orphaned |-> o.orphaned]

\* faulty variant: sync without @transaction.atomic, nothing is rolled back
TransactionNoRollback(before, after, raised) == after

\* @transaction.atomic: the tables after the block, which rolls back when it raises
TransactionAtomic(before, after, raised) ==
    IF raised # "none" THEN before ELSE after

\* faulty variant: dry_run is ignored
SyncWritesAlways(dry_run) == TRUE

\* what sync does with the plan: return it (dry_run) or execute it
SyncWrites(dry_run) == ~dry_run

\* PermissionRegistry.sync(dry_run)
Sync(dry_run) ==
    LET plan == PlanSync(permissions, upr_permissions)
        planKeys == [create |-> KeysOfSeq(plan.create), update |-> KeysOfSeq(plan.update),
                     orphaned |-> Keys(plan.orphaned)]
    IN  IF ~SyncWrites(dry_run)
        THEN /\ last' = [op |-> "sync", dry_run |-> dry_run, raised |-> "none",
                         plan |-> planKeys,
                         result |-> [created |-> <<>>, updated |-> <<>>, orphaned |-> {}],
                         before |-> upr_permissions]
             /\ UNCHANGED <<modules, permissions, orphan_action, upr_permissions,
                            upr_user_permissions, cache, writes>>
        ELSE LET e == ExecuteSync(plan, orphan_action, upr_permissions,
                                  upr_user_permissions, cache)
             IN  /\ upr_permissions' =
                        TransactionAtomic(upr_permissions, e.rows, e.raised)
                 /\ upr_user_permissions' =
                        TransactionAtomic(upr_user_permissions, e.grants, e.raised)
                 \* the cache is not transactional; "Invalidate cache" runs on success
                 /\ cache' = IF e.raised = "none"
                             THEN CacheDelete(e.cache, CATALOG_KEY) ELSE e.cache
                 /\ last' = [op |-> "sync", dry_run |-> dry_run, raised |-> e.raised,
                             plan |-> planKeys,
                             result |-> [created |-> e.created, updated |-> e.updated,
                                         orphaned |-> e.orphaned],
                             before |-> upr_permissions]
                 /\ UNCHANGED <<modules, permissions, orphan_action, writes>>

---------------------------------------------------------------------------
(* The registry and the store: registration, direct writes of Permission rows, sync *)

NoModules == <<>>

\* register_module calls: the examples of the documentation and the tests, and a dotted
\* (hierarchical) module name
Registrations ==
    { <<"users", <<"view", "create">>, <<"reset_password">>>>,
      <<"a.b", <<"view">>, <<>>>> }

\* Permission.objects.create(...) calls outside sync: a key some registration declares,
\* a key none declares, with label, state flags as given; module and capability are
\* left to be derived from the key
DirectKeys == {"users.view", "users.old_action", "a.b.view"}
\* <<label, is_active, is_deprecated>>: in step with the definition of users.view, with
\* an old label, deactivated, flagged deprecated
DirectFields ==
    { <<"View Users", TRUE, FALSE>>, <<"Old Label", TRUE, FALSE>>,
      <<"View Users", FALSE, FALSE>>, <<"View Users", TRUE, TRUE>> }

InitSync ==
    /\ modules = NoModules
    /\ permissions = <<>>
    /\ orphan_action \in {"warn", "error", "delete"}
    /\ upr_permissions = {}
    /\ upr_user_permissions = {}
    /\ cache = [k \in CacheKeys |-> Miss]
    /\ writes = 0
    /\ last = [op |-> "init"]

NextSync ==
    \/ \E r \in Registrations : RegisterModule(r[1], r[2], r[3])
    \/ \E key \in DirectKeys, f \in DirectFields :
            CreatePermission(key, "", "", f[1], "", f[2], f[3])
    \/ \E dry_run \in BOOLEAN : Sync(dry_run)

SpecSync == InitSync /\ [][NextSync]_vars


---------------------------------------------------------------------------
(* The resolver: permissions.py *)

\* request.user: None, AnonymousUser, or an authenticated user
NoUser == [present |-> FALSE, is_authenticated |-> FALSE, id |-> 0]
AnonymousUser == [present |-> TRUE, is_authenticated |-> FALSE, id |-> 0]
AuthUser(user_id) == [present |-> TRUE, is_authenticated |-> TRUE, id |-> user_id]

Principals == {NoUser, AnonymousUser} \cup {AuthUser(u) : u \in Users}

\* a viewset: whether it has a module attribute and its value, whether it has a
\* get_module method and what that returns
ViewSet(has_module, module, has_get_module, get_module) ==
    [has_module |-> has_module, module |-> module,
     has_get_module |-> has_get_module, get_module |-> get_module]

CRUD_ACTION_MAP ==
    [list |-> "view", retrieve |-> "view", create |-> "create", update |-> "update",
     partial_update |-> "update", destroy |-> "delete"]

\* PermissionResolver.get_module
GetModule(viewset) ==
    IF viewset.has_module THEN viewset.module
    ELSE IF viewset.has_get_module THEN viewset.get_module
    ELSE None

\* "not module": None and the empty string are falsy
Falsy(module) == module = None \/ module = ""

\* faulty variant: an action outside the table is named after the HTTP method
NormalizeActionByMethod(action, http_method) ==
    IF action \in DOMAIN CRUD_ACTION_MAP THEN CRUD_ACTION_MAP[action]
    ELSE IF http_method = "GET" THEN "view" ELSE "create"

\* PermissionResolver.normalize_action
NormalizeAction(action, http_method) ==
    IF action \in DOMAIN CRUD_ACTION_MAP THEN CRUD_ACTION_MAP[action] ELSE action

\* PermissionResolver.is_valid_permission_key
IsValidPermissionKey(key) ==
    IF key = "" \/ ~Contains(key, ".") THEN FALSE
    ELSE LET parts == SplitDots(key)
         IN  /\ Len(parts) >= 2
             /\ \A i \in 1..Len(parts) : MatchIdent(parts[i])

\* PermissionResolver._load_user_permissions:
\* UserPermission.objects.filter(user=user, permission__is_active=True)
LoadUserPermissions(user_id, grants, rows) ==
    {g.permission : g \in {x \in grants : /\ x.user = user_id
                                          /\ RowOf(rows, x.permission).is_active}}

\* PermissionResolver.get_user_permissions: [perms, cache]
GetUserPermissions(c, user_id, grants, rows) ==
    LET cache_key == UserCacheKey(user_id)
    IN  IF c[cache_key] = Miss
        THEN LET loaded == LoadUserPermissions(user_id, grants, rows)
             IN  [perms |-> loaded, cache |-> CacheSet(c, cache_key, loaded)]
        ELSE [perms |-> c[cache_key][1], cache |-> c]

\* PermissionResolver.check_permission: [result, cache]
CheckPermission(c, user_id, permission_key, grants, rows) ==
    IF ~IsValidPermissionKey(permission_key)
    THEN [result |-> FALSE, cache |-> c]
    ELSE LET g == GetUserPermissions(c, user_id, grants, rows)
         IN  [result |-> permission_key \in g.perms, cache |-> g.cache]

\* faulty variant: the no-module bypass is tested before the authentication check
ResolveOutcomeBypassFirst(user, viewset, action, http_method, c, grants, rows) ==
    LET module == GetModule(viewset)
    IN  IF Falsy(module) THEN [result |-> TRUE, cache |-> c, key |-> ""]
        ELSE IF ~user.present \/ ~user.is_authenticated
        THEN [result |-> FALSE, cache |-> c, key |-> ""]
        ELSE LET permission_key ==
                     ConstructKey(module, NormalizeAction(action, http_method))
                 chk == CheckPermission(c, user.id, permission_key, grants, rows)
             IN  [result |-> chk.result, cache |-> chk.cache, key |-> permission_key]

\* faulty variant: no bypass, a missing module is formatted into the key like any other
ResolveOutcomeNoBypass(user, viewset, action, http_method, c, grants, rows) ==
    IF ~user.present \/ ~user.is_authenticated
    THEN [result |-> FALSE, cache |-> c, key |-> ""]
    ELSE LET permission_key ==
                 ConstructKey(GetModule(viewset), NormalizeAction(action, http_method))
             chk == CheckPermission(c, user.id, permission_key, grants, rows)
         IN  [result |-> chk.result, cache |-> chk.cache, key |-> permission_key]

\* PermissionResolver.resolve: [result, cache, key] (key: the key it checked, if any)
ResolveOutcome(user, viewset, action, http_method, c, grants, rows) ==
    IF ~user.present \/ ~user.is_authenticated
    THEN [result |-> FALSE, cache |-> c, key |-> ""]
    ELSE LET module == GetModule(viewset)
         IN  IF Falsy(module)
             THEN [result |-> TRUE, cache |-> c, key |-> ""]
             ELSE LET capability == NormalizeAction(action, http_method)
                      permission_key == ConstructKey(module, capability)
                      chk == CheckPermission(c, user.id, permission_key, grants, rows)
                  IN  [result |-> chk.result, cache |-> chk.cache,
                       key |-> permission_key]

\* a call of resolve(user, viewset, action, http_method)
Resolve(user, viewset, action, http_method) ==
    LET o == ResolveOutcome(user, viewset, action, http_method, cache,
                            upr_user_permissions, upr_permissions)
    IN  /\ cache' = o.cache
        /\ last' = [op |-> "resolve", user |-> user, viewset |-> viewset,
                    action |-> action, http_method |-> http_method, key |-> o.key,
                    result |-> o.result]
        /\ UNCHANGED <<modules, permissions, orphan_action, upr_permissions,
                       upr_user_permissions, writes>>

\* a call of check_permission(user, permission_key)
Check(user_id, permission_key) ==
    LET o == CheckPermission(cache, user_id, permission_key, upr_user_permissions,
                             upr_permissions)
    IN  /\ cache' = o.cache
        /\ last' = [op |-> "check", user |-> user_id, key |-> permission_key,
                    valid |-> IsValidPermissionKey(permission_key),
                    result |-> o.result, cache_before |-> cache]
        /\ UNCHANGED <<modules, permissions, orphan_action, upr_permissions,
                       upr_user_permissions, writes>>

\* the cache backend drops an entry (its timeout passed)
CacheExpire(key) ==
    /\ cache[key] # Miss
    /\ cache' = CacheDelete(cache, key)
    /\ last' = [op |-> "expire", key |-> key]
    /\ UNCHANGED <<modules, permissions, orphan_action, upr_permissions,
                   upr_user_permissions, writes>>


---------------------------------------------------------------------------
(* Grants: UserPermission writes of the tests, permission_management.py, helpers.py *)

Grant(user_id, key) == [user |-> user_id, permission |-> key]

\* UserPermission.objects.create(user=user, permission=permission), as the tests grant:
\* the row is saved (unique_together refuses a second one) and post_save is sent
CreateUserPermission(user_id, key) ==
    /\ key \in Keys(upr_permissions)
    /\ IF Grant(user_id, key) \in upr_user_permissions
       THEN /\ UNCHANGED <<upr_user_permissions, cache>>
            /\ last' = [op |-> "grant", user |-> user_id, key |-> key,
                        raised |-> "IntegrityError", cached |-> cache[UserCacheKey(user_id)]]
       ELSE /\ upr_user_permissions' = upr_user_permissions \cup {Grant(user_id, key)}
            /\ cache' = invalidate_user_permission_cache(cache, user_id)
            /\ last' = [op |-> "grant", user |-> user_id, key |-> key,
                        raised |-> "none", cached |-> cache[UserCacheKey(user_id)]]
    /\ UNCHANGED <<modules, permissions, orphan_action, upr_permissions, writes>>

\* UserPermissionManagementViewSet.assign_permission: get_or_create, and a save of
\* granted_by when the grant exists; both send post_save
AssignPermission(user_id, key) ==
    /\ IF \E r \in upr_permissions : r.key = key /\ r.is_active
       THEN /\ upr_user_permissions' = upr_user_permissions \cup {Grant(user_id, key)}
            /\ cache' = invalidate_user_permission_cache(cache, user_id)
            /\ last' = [op |-> "assign", user |-> user_id, key |-> key,
                        status |-> IF Grant(user_id, key) \in upr_user_permissions
                                   THEN "200" ELSE "201",
                        cached |-> cache[UserCacheKey(user_id)]]
       ELSE /\ UNCHANGED <<upr_user_permissions, cache>>
            /\ last' = [op |-> "assign", user |-> user_id, key |-> key,
                        status |-> "404", cached |-> cache[UserCacheKey(user_id)]]
    /\ UNCHANGED <<modules, permissions, orphan_action, upr_permissions, writes>>

\* the ghost fields of a revoke's record: the grants it deleted and what the cache held
\* for each user just before
CachedBefore(user_ids) == [u \in user_ids |-> cache[UserCacheKey(u)]]

\* UserPermissionManagementViewSet.revoke_permission: user_permission.delete() sends
\* post_delete
RevokePermission(user_id, key) ==
    /\ IF key \in Keys(upr_permissions) /\ Grant(user_id, key) \in upr_user_permissions
       THEN /\ upr_user_permissions' = upr_user_permissions \ {Grant(user_id, key)}
            /\ cache' = invalidate_user_permission_cache(cache, user_id)
            /\ last' = [op |-> "revoke", users |-> {user_id}, keys |-> {key},
                        status |-> "200", revoked |-> {Grant(user_id, key)},
                        cached |-> CachedBefore({user_id})]
       ELSE /\ UNCHANGED <<upr_user_permissions, cache>>
            /\ last' = [op |-> "revoke", users |-> {user_id}, keys |-> {key},
                        status |-> "404", revoked |-> {},
                        cached |-> CachedBefore({user_id})]
    /\ UNCHANGED <<modules, permissions, orphan_action, upr_permissions, writes>>

\* UserPermissionManagementViewSet.bulk_assign (every user id given exists)
BulkAssign(user_ids, keys) ==
    /\ user_ids # {} /\ keys # {}
    /\ IF keys \subseteq {r.key : r \in {x \in upr_permissions : x.is_active}}
       THEN /\ upr_user_permissions' =
                    upr_user_permissions \cup {Grant(u, k) : u \in user_ids, k \in keys}
            /\ cache' = InvalidateUsers(cache, user_ids)
            /\ last' = [op |-> "bulk_assign", users |-> user_ids, keys |-> keys,
                        status |-> "201"]
       ELSE /\ UNCHANGED <<upr_user_permissions, cache>>
            /\ last' = [op |-> "bulk_assign", users |-> user_ids, keys |-> keys,
                        status |-> "404"]
    /\ UNCHANGED <<modules, permissions, orphan_action, upr_permissions, writes>>

\* UserPermissionManagementViewSet.bulk_revoke (every user id given exists):
\* QuerySet.delete() sends post_delete for each row it deletes
BulkRevoke(user_ids, keys) ==
    /\ user_ids # {} /\ keys # {}
    /\ IF keys \subseteq Keys(upr_permissions)
       THEN LET gone == {g \in upr_user_permissions :
                            g.user \in user_ids /\ g.permission \in keys}
            IN  /\ upr_user_permissions' = upr_user_permissions \ gone
                /\ cache' = InvalidateUsers(cache, {g.user : g \in gone})
                /\ last' = [op |-> "bulk_revoke", users |-> user_ids, keys |-> keys,
                            status |-> "200", revoked |-> gone,
                            cached |-> CachedBefore(user_ids)]
       ELSE /\ UNCHANGED <<upr_user_permissions, cache>>
            /\ last' = [op |-> "bulk_revoke", users |-> user_ids, keys |-> keys,
                        status |-> "404", revoked |-> {},
                        cached |-> CachedBefore(user_ids)]
    /\ UNCHANGED <<modules, permissions, orphan_action, upr_permissions, writes>>

\* UPRHelper(user).add_permission(permission_keys): the delete of the user's grants
\* sends post_delete for each row deleted, bulk_create sends no signal
AddPermission(user_id, keys) ==
    LET existing == {g \in upr_user_permissions : g.user = user_id}
        found == keys \cap Keys(upr_permissions)
    IN  /\ upr_user_permissions' =
                (upr_user_permissions \ existing) \cup {Grant(user_id, k) : k \in found}
        /\ cache' = IF existing # {} THEN invalidate_user_permission_cache(cache, user_id)
                    ELSE cache
        /\ last' = [op |-> "add_permission", user |-> user_id, keys |-> keys]
        /\ UNCHANGED <<modules, permissions, orphan_action, upr_permissions, writes>>

\* a Permission row is loaded, its is_active is set and it is saved (Permission.save)
SetActive(original, is_active) ==
    /\ original \in upr_permissions
    /\ original.is_active # is_active
    /\ LET s == SaveExisting(original, [original EXCEPT !.is_active = is_active],
                             upr_permissions)
       IN  /\ upr_permissions' = s.rows
           /\ cache' = IF s.raised = "none" THEN invalidate_permission_cache(cache)
                       ELSE cache
           /\ last' = [op |-> "save_permission", key |-> original.key,
                       raised |-> s.raised]
    /\ UNCHANGED <<modules, permissions, orphan_action, upr_user_permissions, writes>>

---------------------------------------------------------------------------
(* The whole engine around one module: register, sync, grant, revoke, resolve *)

\* the module of the opt-in tests: 'users' with crud=['view'] only
ResolveRegistrations == { <<"users", <<"view">>, <<>>>> }

\* keys the management operations are called with: a declared one, an undeclared one
GrantKeys == {"users.view", "users.create"}

\* call sites: no module at all, module = 'users', module = None (with a get_module
\* that is then never asked), get_module() returning 'users'
ViewSets ==
    { ViewSet(FALSE, None, FALSE, None),
      ViewSet(TRUE, "users", FALSE, None),
      ViewSet(TRUE, None, TRUE, "users"),
      ViewSet(FALSE, None, TRUE, "users") }

\* DRF actions asked for: the standard ones (list -> view is declared, the others are
\* not) and a custom one
Actions ==
    {"list", "retrieve", "create", "update", "partial_update", "destroy", "export_data"}

HttpMethods == {"GET", "POST"}

Init ==
    /\ modules = NoModules
    /\ permissions = <<>>
    /\ orphan_action = "warn"
    /\ upr_permissions = {}
    /\ upr_user_permissions = {}
    /\ cache = [k \in CacheKeys |-> Miss]
    /\ writes = 0
    /\ last = [op |-> "init"]

Next ==
    \/ \E r \in ResolveRegistrations : RegisterModule(r[1], r[2], r[3])
    \/ Sync(FALSE)
    \/ \E row \in upr_permissions, is_active \in BOOLEAN : SetActive(row, is_active)
    \/ \E u \in Users, k \in GrantKeys : CreateUserPermission(u, k)
    \/ \E u \in Users, k \in GrantKeys : AssignPermission(u, k)
    \/ \E u \in Users, k \in GrantKeys : RevokePermission(u, k)
    \/ \E us \in SUBSET Users, ks \in SUBSET GrantKeys : BulkAssign(us, ks)
    \/ \E us \in SUBSET Users, ks \in SUBSET GrantKeys : BulkRevoke(us, ks)
    \/ \E u \in Users, ks \in SUBSET GrantKeys : AddPermission(u, ks)
    \/ \E p \in Principals, v \in ViewSets, a \in Actions, m \in HttpMethods :
            Resolve(p, v, a, m)
    \/ \E k \in CacheKeys : CacheExpire(k)

Spec == Init /\ [][Next]_vars


---------------------------------------------------------------------------
(* Claims about the resolver, checked under Spec *)

IsResolve == last.op = "resolve"

Authenticated(user) == user.present /\ user.is_authenticated

\* the call site names no module: neither a module attribute nor a get_module method
\* gives one
DeclaresNoModule(viewset) ==
    /\ viewset.has_module => Falsy(viewset.module)
    /\ viewset.has_get_module => Falsy(viewset.get_module)

\* the key was declared: it is in the registry or it is persisted
Declared(key) == key \in DictKeys(permissions) \/ key \in Keys(upr_permissions)

\* the persisted active grants of a user
ActiveGrants(user_id) ==
    {g.permission : g \in {x \in upr_user_permissions :
        /\ x.user = user_id
        /\ \E r \in upr_permissions : r.key = x.permission /\ r.is_active}}

\* C1 (as claimed): resolve of an authenticated principal at a call site with a module
\* returns true whenever the key module.capability was never declared (neither
\* registered nor persisted), whatever the principal's grants.
C1_OptInAllow ==
    (/\ IsResolve
     /\ Authenticated(last.user)
     /\ ~Falsy(GetModule(last.viewset))
     /\ ~Declared(last.key))
    => last.result = TRUE

\* C2 (as claimed): for a key that is registered and synced, every answer of resolve
\* for an authenticated principal equals membership of the key in the principal's
\* persisted active grants (so a resolve after a grant allows, also when an empty grant
\* set was cached before).
C2_DeclaredAnswerIsGrantMembership ==
    (/\ IsResolve
     /\ Authenticated(last.user)
     /\ last.key \in DictKeys(permissions)
     /\ last.key \in Keys(upr_permissions))
    => last.result = (last.key \in ActiveGrants(last.user.id))

\* C3: when a revoke (single or bulk) has deleted the grant of key K to principal P,
\* the resolve of P on K that comes next returns false, whatever P's cache entry held
\* before the revoke.
C3_RevokeThenResolveDenies ==
    [][(/\ last.op \in {"revoke", "bulk_revoke"}
        /\ last'.op = "resolve"
        /\ Authenticated(last'.user)
        /\ Grant(last'.user.id, last'.key) \in last.revoked)
       => last'.result = FALSE]_vars

\* C3 witness: a revoke has just deleted a grant whose key was in the principal's
\* cached grant set
C3_Witness ==
    /\ last.op \in {"revoke", "bulk_revoke"}
    /\ \E g \in last.revoked :
          /\ last.cached[g.user] # Miss
          /\ g.permission \in last.cached[g.user][1]
          /\ cache[UserCacheKey(g.user)] = Miss

\* C4: resolve returns false whenever the principal is absent or not authenticated,
\* also at a call site that declares no module and for an undeclared key.
C4_UnauthenticatedDenied ==
    (IsResolve /\ ~Authenticated(last.user)) => last.result = FALSE

\* C4 witness: an unauthenticated principal was denied at a call site without module
C4_Witness ==
    /\ IsResolve
    /\ last.user = AnonymousUser
    /\ DeclaresNoModule(last.viewset)
    /\ last.result = FALSE

---------------------------------------------------------------------------
(* Claims about sync, checked under SpecSync *)

\* the last step was a sync that executed its plan
IsExecutedSync == last.op = "sync" /\ ~last.dry_run

\* the rows of a table whose key is absent from the registry
Orphans(rows) == {r \in rows : r.key \notin GetAllPermissionKeys}

\* C6 (as claimed): after a non-dry-run sync has succeeded, a second sync with the
\* same definitions and the store as the first left it plans nothing to create and
\* nothing to update, whatever rows (inactive or deprecated ones included) the store
\* held before.
C6_SyncIdempotent ==
    (IsExecutedSync /\ last.raised = "none")
    => LET plan == PlanSync(permissions, upr_permissions)
       IN  plan.create = <<>> /\ plan.update = <<>>

\* C7: with orphan_action = 'error', a non-dry-run sync that finds an orphaned row
\* fails and leaves the store as it was: no planned row is created, no planned update
\* has changed a row, no row is deleted, no grant is deleted.
C7_OrphanErrorNoSideEffects ==
    (/\ IsExecutedSync
     /\ orphan_action = "error"
     /\ last.plan.orphaned # {})
    => /\ last.raised # "none"
       /\ upr_permissions = last.before
       /\ \A i \in DOMAIN last.plan.create :
              last.plan.create[i] \notin Keys(upr_permissions)

\* C7 witness: such a sync had rows to create and rows to update in its plan
C7_Witness ==
    /\ IsExecutedSync
    /\ orphan_action = "error"
    /\ last.plan.orphaned # {}
    /\ last.plan.create # <<>>
    /\ last.plan.update # <<>>
    /\ last.raised = "ValidationError"

\* C8: sync(dry_run=True) returns the plan and leaves the permission rows as they
\* were, every field of every row, for every registry, store and orphan_action.
C8_DryRunLeavesStore ==
    (last.op = "sync" /\ last.dry_run)
    => /\ upr_permissions = last.before
       /\ last.raised = "none"
       /\ last.plan.orphaned = Keys(Orphans(last.before))

\* C8 witness: a dry run under orphan_action = 'delete' planned creates, updates and
\* orphans
C8_Witness ==
    /\ last.op = "sync" /\ last.dry_run
    /\ orphan_action = "delete"
    /\ last.plan.orphaned # {}
    /\ last.plan.create # <<>>
    /\ last.plan.update # <<>>

\* C9: a dry run lists every persisted row whose key is absent from the registry as
\* orphaned; a non-dry-run sync removes such a row only under orphan_action =
\* 'delete'; under 'warn' it reports the key in result.orphaned and leaves the row
\* unchanged.
C9_OrphanHandling ==
    /\ (last.op = "sync" /\ last.dry_run)
       => \A r \in Orphans(upr_permissions) : r.key \in last.plan.orphaned
    /\ IsExecutedSync
       => \A r \in Orphans(last.before) :
              /\ r \notin upr_permissions => orphan_action = "delete"
              /\ orphan_action = "warn" /\ last.raised = "none"
                 => r.key \in last.result.orphaned /\ r \in upr_permissions

\* C9 witness: a sync under 'warn' reported an orphan and kept its row
C9_Witness ==
    /\ IsExecutedSync
    /\ orphan_action = "warn"
    /\ last.raised = "none"
    /\ \E r \in Orphans(last.before) :
          r.key \in last.result.orphaned /\ r \in upr_permissions

\* C10 (as claimed): after a successful non-dry-run sync every key of the registry
\* has exactly one row, the row is active and carries the definition's module,
\* capability, label and description, and result.created lists exactly the registry
\* keys that had no row before.
C10_SyncPersistsDefinitions ==
    (IsExecutedSync /\ last.raised = "none")
    => /\ \A k \in GetAllPermissionKeys :
             LET d == DictGet(permissions, k)
                 found == {r \in upr_permissions : r.key = k}
             IN  /\ Cardinality(found) = 1
                 /\ \A r \in found :
                        /\ r.is_active
                        /\ r.module = d.module
                        /\ r.capability = d.capability
                        /\ r.label = d.label
                        /\ r.description = d.description
       /\ Range(last.result.created) = GetAllPermissionKeys \ Keys(last.before)

---------------------------------------------------------------------------
(* Hierarchical (dotted) module names, checked under SpecSync *)

\* C11 (as claimed): with a module of dotted name registered, a non-dry-run sync that
\* the orphan policy does not abort succeeds, and every definition of the dotted module
\* has its row, with key module + '.' + capability and with the dotted name as module.
C11_HierarchicalModulesSync ==
    (/\ IsExecutedSync
     /\ orphan_action = "error" => last.plan.orphaned = {}
     /\ \E i \in DOMAIN permissions : Contains(permissions[i].module, "."))
    => /\ last.raised = "none"
       /\ \A i \in DOMAIN permissions :
             LET d == permissions[i]
             IN  Contains(d.module, ".")
                 => \E r \in upr_permissions :
                       /\ r.key = ConstructKey(d.module, d.capability)
                       /\ r.module = d.module
                       /\ r.capability = d.capability

---------------------------------------------------------------------------
(* The registry alone: registration calls, decorated classes, validate, sync *)

\* register_module calls: the module of the tests, the same name again with other
\* capabilities (one of them listed as crud and as action), a name with an upper-case
\* letter, a crud list with an entry outside STANDARD_CRUD
RegistryCalls ==
    { <<"users", <<"view", "create">>, <<"reset_password">>>>,
      <<"users", <<"view">>, <<"view">>>>,
      <<"Users", <<"view">>, <<>>>>,
      <<"billing", <<"view", "export">>, <<>>>> }

\* decorated classes: an @action with an explicit label, and a class whose actions come
\* from its actions list and from @action methods
DecoratedClasses ==
    { <<"users", <<"view">>, <<>>,
        <<ActionDecorator("reset_password", "Reset Password")>>>>,
      <<"orders", <<"view">>, <<"ship">>,
        <<ActionDecorator("cancel", None), ActionDecorator("ship", None)>>>> }

InitRegistry ==
    /\ modules = NoModules
    /\ permissions = <<>>
    /\ orphan_action = "warn"
    /\ upr_permissions = {}
    /\ upr_user_permissions = {}
    /\ cache = [k \in CacheKeys |-> Miss]
    /\ writes = 0
    /\ last = [op |-> "init"]

NextRegistry ==
    \/ \E r \in RegistryCalls : RegisterModule(r[1], r[2], r[3])
    \/ \E c \in DecoratedClasses : ModuleDecorator(c[1], c[2], c[3], c[4])
    \/ Validate
    \/ \E dry_run \in BOOLEAN : Sync(dry_run)

SpecRegistry == InitRegistry /\ [][NextRegistry]_vars

---------------------------------------------------------------------------
(* Claims about registration, checked under SpecRegistry *)

IsRegisterModule == last.op = "register_module"

---------------------------------------------------------------------------
(* The Permission model alone: rows created and saved directly *)

\* Permission.objects.create(key, module, capability, label): keys of two and of three
\* segments with only key and label set, a key without dot, a key with an upper-case
\* letter, module and capability given (in step with the key, and as a dotted module
\* would have them), a blank label
ModelCreates ==
    { <<"users.view", "", "", "View Users">>,
      <<"a.b.c", "", "", "Label">>,
      <<"users", "", "", "No Dot">>,
      <<"Users.view", "", "", "Upper">>,
      <<"users.view", "users", "view", "View Users">>,
      <<"a.b.c", "a.b", "c", "Dotted Module">>,
      <<"users.edit", "", "", "">> }

\* what a caller assigns to a loaded row before saving it: another key (with module and
\* capability kept, or blanked so that they are derived again), or one other field, or
\* every other field at once
SaveEdits(original) ==
    {[original EXCEPT !.key = k] : k \in {"users.read", "a.b.c"} \ {original.key}}
    \cup {[original EXCEPT !.key = k, !.module = "", !.capability = ""] :
            k \in {"users.read", "a.b.c"} \ {original.key}}
    \cup { [original EXCEPT !.label = "New Label"],
           [original EXCEPT !.label = ""],
           [original EXCEPT !.description = "changed"],
           [original EXCEPT !.is_active = ~original.is_active],
           [original EXCEPT !.is_deprecated = ~original.is_deprecated],
           [original EXCEPT !.module = ""],
           [original EXCEPT !.module = "other"],
           [original EXCEPT !.capability = ""],
           [original EXCEPT !.capability = "other"],
           [original EXCEPT !.label = "New Label", !.description = "changed",
                            !.is_active = ~original.is_active,
                            !.is_deprecated = ~original.is_deprecated,
                            !.module = "", !.capability = ""] }

InitModel ==
    /\ modules = NoModules
    /\ permissions = <<>>
    /\ orphan_action = "warn"
    /\ upr_permissions = {}
    /\ upr_user_permissions = {}
    /\ cache = [k \in CacheKeys |-> Miss]
    /\ writes = 0
    /\ last = [op |-> "init"]

NextModel ==
    \/ \E c \in ModelCreates, is_active \in BOOLEAN, is_deprecated \in BOOLEAN :
            CreatePermission(c[1], c[2], c[3], c[4], "", is_active, is_deprecated)
    \/ \E row \in upr_permissions : \E instance \in SaveEdits(row) :
            SavePermission(row, instance)

SpecModel == InitModel /\ [][NextModel]_vars

---------------------------------------------------------------------------
(* Claims about the Permission model, checked under SpecModel *)

\* a key of at least two dot-separated segments, each a non-empty word over [a-z0-9_]
WellFormedKey(key) ==
    /\ Contains(key, ".")
    /\ LET parts == SplitDots(key)
       IN  \A i \in DOMAIN parts :
              parts[i] # "" /\ \A j \in 1..Len(parts[i]) : Char(parts[i], j) \in IdentChars

\* the fields of an instance agree with the instance's own key: a non-blank label, a
\* module that is blank or the text before the key's first dot, a capability that is
\* blank or the text after it
AgreesWithOwnKey(instance) ==
    /\ instance.label # ""
    /\ instance.module # ""
       => /\ Len(instance.module) < Len(instance.key)
          /\ instance.module \o "." = SubSeq(instance.key, 1, Len(instance.module) + 1)
          /\ ~Contains(instance.module, ".")
    /\ instance.capability # ""
       => \E i \in 1..Len(instance.key) :
             /\ Char(instance.key, i) = "."
             /\ ~Contains(SubSeq(instance.key, 1, i - 1), ".")
             /\ instance.capability = SubSeq(instance.key, i + 1, Len(instance.key))

\* C13: a save of an existing row with a key other than its stored key fails with
\* ValidationError and leaves the stored row as it was; with the stored key, a save is
\* accepted exactly when the instance's fields agree with its own key, so no value of
\* label, description, is_active, is_deprecated, module or capability is refused for
\* differing from the stored one.
C13_KeyImmutable ==
    last.op = "save"
    => /\ last.instance.key # last.original.key
          => /\ last.raised = "ValidationError"
             /\ last.original \in upr_permissions
             /\ upr_permissions = last.before
       /\ last.instance.key = last.original.key
          => /\ last.raised = "none" <=> AgreesWithOwnKey(last.instance)
             /\ last.raised = "none"
                => \E r \in upr_permissions :
                      /\ r.key = last.original.key
                      /\ r.label = last.instance.label
                      /\ r.description = last.instance.description
                      /\ r.is_active = last.instance.is_active
                      /\ r.is_deprecated = last.instance.is_deprecated

\* C13 witness: a save with a changed key (module and capability left to be derived
\* from the new key) has been refused
C13_Witness ==
    /\ last.op = "save"
    /\ last.instance.key # last.original.key
    /\ last.instance.module = ""
    /\ last.instance.key \notin Keys(upr_permissions)
    /\ last.raised = "ValidationError"

\* C14: a permission created with only key and label set, with a well-formed key not
\* yet stored and a non-blank label (fields within their max_length), is stored with
\* module the text before the first dot of the key and capability the rest after it.
C14_KeyDerivation ==
    (/\ last.op = "create_permission"
     /\ last.module = "" /\ last.capability = ""
     /\ WellFormedKey(last.key)
     /\ ~last.existed
     /\ last.label # "" /\ Len(last.label) <= LabelMaxLength
     /\ Len(last.key) <= ModuleMaxLength)
    => /\ last.raised = "none"
       /\ \E r \in upr_permissions :
             /\ r.key = last.key
             /\ ~Contains(r.module, ".")
             /\ r.module \o "." \o r.capability = last.key

\* C14 witness: a key of three segments was created with module 'a' and capability 'b.c'
C14_Witness ==
    /\ last.op = "create_permission"
    /\ last.module = "" /\ last.capability = ""
    /\ last.key = "a.b.c"
    /\ last.raised = "none"
    /\ \E r \in upr_permissions : r.key = "a.b.c" /\ r.module = "a" /\ r.capability = "b.c"

---------------------------------------------------------------------------
(* The definitions a registration generates, checked under SpecRegistry *)

RegisteredOk == IsRegisterModule /\ last.raised = "none"

\* the capabilities a register_module call names
CapabilitiesOf(call) == Range(call.crud) \cup Range(call.actions)

\* definition d is the one generated for capability cap of the module of the call
GeneratedFor(d, call, cap, type) ==
    /\ d.key = call.module \o "." \o cap
    /\ d.module = call.module
    /\ d.capability = cap
    /\ d.type = type

\* C15 (as claimed): a successful register_module(name, crud, actions) generates
\* exactly |crud| + |actions| definitions, one per capability, under key name + '.' +
\* capability, of kind 'crud' for the crud entries and 'action' for the actions;
\* get_module_permissions(name) returns exactly these and get_all_permission_keys grows
\* by exactly these keys.
C15_RegisterCount ==
    RegisteredOk
    => LET generated == GetModulePermissions(permissions, last.module)
       IN  /\ Len(generated) = Len(last.crud) + Len(last.actions)
           /\ \A i \in DOMAIN last.crud :
                 \E j \in DOMAIN generated :
                    GeneratedFor(generated[j], last, last.crud[i], "crud")
           /\ \A i \in DOMAIN last.actions :
                 \E j \in DOMAIN generated :
                    GeneratedFor(generated[j], last, last.actions[i], "action")
           /\ Cardinality(GetAllPermissionKeys) =
                 Cardinality(DictKeys(last.before.permissions))
                 + Len(last.crud) + Len(last.actions)

\* C15 (amended): a successful register_module generates exactly one definition per
\* distinct capability of crud and actions, under key name + '.' + capability with that
\* module and capability, of kind 'action' when the capability is among the actions and
\* 'crud' otherwise; get_module_permissions(name) returns exactly these and
\* get_all_permission_keys is the keys before together with these keys.
C15_RegisterOnePerCapability ==
    RegisteredOk
    => LET generated == GetModulePermissions(permissions, last.module)
       IN  /\ Len(generated) = Cardinality(CapabilitiesOf(last))
           /\ \A cap \in CapabilitiesOf(last) :
                 \E j \in DOMAIN generated :
                    GeneratedFor(generated[j], last, cap,
                                 IF cap \in Range(last.actions) THEN "action" ELSE "crud")
           /\ GetAllPermissionKeys =
                 DictKeys(last.before.permissions)
                 \cup {last.module \o "." \o cap : cap \in CapabilitiesOf(last)}
           /\ Len(permissions) = Cardinality(GetAllPermissionKeys)

\* C15 witness: a module was registered with a capability listed as crud and as action
C15_Witness ==
    /\ RegisteredOk
    /\ Range(last.crud) \cap Range(last.actions) # {}
    /\ Len(GetModulePermissions(permissions, last.module)) = 1

---------------------------------------------------------------------------
(* Activation changes and the cached grant sets, checked under Spec *)

\* no principal holding a grant of the key has a cached grant set
HoldersEvicted(key) ==
    \A g \in upr_user_permissions :
        g.permission = key => cache[UserCacheKey(g.user)] = Miss

\* C16 (as claimed): when the activation state of a persisted permission has changed,
\* by a save of is_active or by the update of a sync that sets an inactive row active
\* again, the cached grant set of every principal holding a grant of that permission
\* is evicted, so that the next resolve reads the persisted state.
C16_ActivationChangeEvicts ==
    /\ (last.op = "save_permission" /\ last.raised = "none") => HoldersEvicted(last.key)
    /\ (IsExecutedSync /\ last.raised = "none")
       => \A r \in last.before :
             (~r.is_active /\ r.key \in Range(last.plan.update)) => HoldersEvicted(r.key)

---------------------------------------------------------------------------
(* validate(), checked under SpecRegistry *)

MalformedKeys == {k \in GetAllPermissionKeys : ~WellFormedKey(k)}

\* C17 (as claimed): validate() returns at least one error for every registry key that
\* does not match the key pattern, and an empty list when every key is well-formed and
\* equals module + '.' + capability; so a sync of a registry that passes validate()
\* does not fail on the format of a key.
C17_ValidateChecksKeyFormat ==
    /\ last.op = "validate"
       => /\ Len(last.errors) >= Cardinality(MalformedKeys)
          /\ (/\ MalformedKeys = {}
              /\ \A i \in DOMAIN permissions :
                    permissions[i].key =
                        permissions[i].module \o "." \o permissions[i].capability)
             => last.errors = <<>>
    /\ (IsExecutedSync /\ ValidateErrors(permissions) = <<>>) => last.raised = "none"

---------------------------------------------------------------------------
(* Labels of the generated definitions, checked under SpecRegistry *)

\* the labels given explicitly for capability cap by the @action declarations of a call
ExplicitLabels(call, cap) ==
    {call.decorated[i].label : i \in {j \in DOMAIN call.decorated :
                                        /\ call.decorated[j].name = cap
                                        /\ call.decorated[j].label # None}}

\* C18 (as claimed): the label of a crud permission is '{Capability} {Module in title
\* case}', the label of a custom action is '{Action in title case} {Module in title
\* case}', unless the action was declared with @action(name, label=...): then the
\* label of the registered definition is the explicit label.
C18_PermissionLabels ==
    RegisteredOk
    => LET generated == GetModulePermissions(permissions, last.module)
       IN  \A i \in DOMAIN generated :
              LET d == generated[i]
              IN  IF d.type = "action" /\ ExplicitLabels(last, d.capability) # {}
                  THEN d.label \in ExplicitLabels(last, d.capability)
                  ELSE d.label = Title(ReplaceChar(d.capability, "_", " "))
                                   \o " " \o Title(last.module)

---------------------------------------------------------------------------
(* Action normalization, checked under Spec *)

\* the capability the table of the documentation gives for a DRF action
CapabilityOfAction(action) ==
    CASE action \in {"list", "retrieve"} -> "view"
      [] action = "create" -> "create"
      [] action \in {"update", "partial_update"} -> "update"
      [] action = "destroy" -> "delete"
      [] OTHER -> action

\* C19: list and retrieve map to view, create to create, update and partial_update to
\* update, destroy to delete, every other action name is the capability unchanged,
\* whatever the HTTP method; the key resolve checks is module + '.' + that capability.
C19_ActionNormalization ==
    (IsResolve /\ Authenticated(last.user) /\ ~Falsy(GetModule(last.viewset)))
    => /\ last.key = GetModule(last.viewset) \o "." \o CapabilityOfAction(last.action)
       /\ \A m \in HttpMethods :
             NormalizeAction(last.action, m) = CapabilityOfAction(last.action)

\* C19 witness: a custom action asked for with POST was checked under its own name
C19_Witness ==
    /\ IsResolve /\ Authenticated(last.user)
    /\ last.action = "export_data"
    /\ last.http_method = "POST"
    /\ last.key = "users.export_data"

---------------------------------------------------------------------------
(* Permission keys at the resolver: rows, grants and check_permission calls *)

\* keys of rows written directly: a plain one, and one that ends with a newline
StoredKeys == {"users.view", "users.view\n"}

\* keys check_permission is called with: those of test_is_valid_permission_key, keys
\* with an empty segment, and a key that ends with a newline
CheckKeys ==
    {"users.view", "users.reset_password", "breakdown.visit.assign_engineer",
     "users", "Users.View", "users.view!", "", ".view", "users.", "users..view",
     "users.view\n"}

InitKeys ==
    /\ modules = NoModules
    /\ permissions = <<>>
    /\ orphan_action = "warn"
    /\ upr_permissions = {}
    /\ upr_user_permissions = {}
    /\ cache = [k \in CacheKeys |-> Miss]
    /\ writes = 0
    /\ last = [op |-> "init"]

NextKeys ==
    \/ \E key \in StoredKeys : CreatePermission(key, "", "", "Label", "", TRUE, FALSE)
    \/ \E u \in Users, key \in StoredKeys : CreateUserPermission(u, key)
    \/ \E u \in Users, key \in CheckKeys : Check(u, key)
    \/ \E k \in CacheKeys : CacheExpire(k)

SpecKeys == InitKeys /\ [][NextKeys]_vars

\* C20 (as claimed): a key is accepted as well-formed exactly when it has at least two
\* dot-separated segments, each a non-empty word over [a-z0-9_]; for a malformed key
\* check_permission returns false for every principal, whatever the grants and the
\* cache hold, and does not read the grant set.
C20_KeyValidity ==
    last.op = "check"
    => /\ last.valid <=> WellFormedKey(last.key)
       /\ ~WellFormedKey(last.key) => (~last.result /\ cache = last.cache_before)

---------------------------------------------------------------------------
(* The catalog: views.py, PermissionCatalogViewSet *)

\* the characters of the model's strings in code point order
CodePoints == "\n ." \o Digits \o UpperLetters \o "_" \o LowerLetters

\* the rank of a character in that order
CodeOf == [c \in Chars(CodePoints) |-> FirstIndex(CodePoints, c)]

\* a < b as strings (order_by on a text column, compared by code point)
RECURSIVE StrLess(_, _)
StrLess(a, b) ==
    IF Len(b) = 0 THEN FALSE
    ELSE IF Len(a) = 0 THEN TRUE
    ELSE LET x == CodeOf[Char(a, 1)]
             y == CodeOf[Char(b, 1)]
         IN  IF x # y THEN x < y
             ELSE StrLess(SubSeq(a, 2, Len(a)), SubSeq(b, 2, Len(b)))

\* the strings of a set in ascending order
RECURSIVE SortStrings(_)
SortStrings(S) ==
    IF S = {} THEN <<>>
    ELSE LET m == CHOOSE x \in S : \A y \in S \ {x} : StrLess(x, y)
         IN  <<m>> \o SortStrings(S \ {m})

\* s.startswith(prefix)
StartsWith(s, prefix) ==
    Len(prefix) <= Len(s) /\ SubSeq(s, 1, Len(prefix)) = prefix

\* sub in s
InString(sub, s) ==
    \E i \in 0..(Len(s) - Len(sub)) : SubSeq(s, i + 1, i + Len(sub)) = sub

\* s.lower()
RECURSIVE LowerString(_)
LowerString(s) ==
    IF Len(s) = 0 THEN ""
    ELSE Lower(Char(s, 1)) \o LowerString(SubSeq(s, 2, Len(s)))

\* _get_modules: the distinct module values of the store, ordered
GetModules(rows) == SortStrings({r.module : r \in rows})

\* _get_submodules: the distinct module values that start with parent_module + "."
GetSubmodules(rows, parent_module) ==
    SortStrings({r.module : r \in {x \in rows : StartsWith(x.module, parent_module \o ".")}})

\* _get_permission_type
GetPermissionType(capability) ==
    IF capability \in {"view", "create", "update", "delete"} THEN "crud" ELSE "action"

\* _serialize_permission
SerializePermission(permission) ==
    [key |-> permission.key, module |-> permission.module,
     capability |-> permission.capability, label |-> permission.label,
     description |-> permission.description,
     type |-> GetPermissionType(permission.capability),
     is_active |-> permission.is_active, is_deprecated |-> permission.is_deprecated]

\* _get_module_label: the label of the registry, else one generated from the key
GetModuleLabel(mods, module_key) ==
    IF IsRegistered(mods, module_key)
    THEN mods[module_key].label
    ELSE Title(ReplaceChar(module_key, "_", " "))

\* _get_module_description
GetModuleDescription(mods, module_key) ==
    IF IsRegistered(mods, module_key)
    THEN mods[module_key].description
    ELSE ""

\* Permission.objects.filter(module=module_key).order_by('capability'), serialized
ModulePermissions(rows, module_key) ==
    LET own == {r \in rows : r.module = module_key}
        caps == SortStrings({r.capability : r \in own})
    IN  [i \in 1..Len(caps) |->
            SerializePermission(CHOOSE r \in own : r.capability = caps[i])]

\* _serialize_module
RECURSIVE SerializeModule(_, _, _)
SerializeModule(rows, mods, module_key) ==
    LET submodules == GetSubmodules(rows, module_key)
    IN  [key |-> module_key,
         label |-> GetModuleLabel(mods, module_key),
         description |-> GetModuleDescription(mods, module_key),
         permissions |-> ModulePermissions(rows, module_key),
         submodules |-> [i \in 1..Len(submodules) |->
                            SerializeModule(rows, mods, submodules[i])]]

\* _build_catalog: [catalog, cache], the cached catalog when there is one
BuildCatalog(c, rows, mods) ==
    IF c[CATALOG_KEY] # Miss
    THEN [catalog |-> c[CATALOG_KEY][1], cache |-> c]
    ELSE LET ms == GetModules(rows)
             catalog == [modules |-> [i \in 1..Len(ms) |->
                                         SerializeModule(rows, mods, ms[i])],
                         total_permissions |-> Cardinality(rows),
                         total_modules |-> Len(ms)]
         IN  [catalog |-> catalog, cache |-> CacheSet(c, CATALOG_KEY, catalog)]

\* the module filter of catalog: the module itself and the modules below it
FilterModule(ms, module_filter) ==
    SelectSeq(ms, LAMBDA m : m.key = module_filter
                             \/ StartsWith(m.key, module_filter \o "."))

\* the type filter of catalog, on the permissions of the listed modules
FilterType(ms, type_filter) ==
    [i \in DOMAIN ms |->
        [ms[i] EXCEPT !.permissions =
            SelectSeq(ms[i].permissions, LAMBDA p : p.type = type_filter)]]

\* the active_only filter of catalog, on the permissions of the listed modules
FilterActive(ms) ==
    [i \in DOMAIN ms |->
        [ms[i] EXCEPT !.permissions =
            SelectSeq(ms[i].permissions, LAMBDA p : p.is_active /\ ~p.is_deprecated)]]

\* the condition of the search filter of catalog on one serialized permission
MatchesSearch(p, search) ==
    LET search_lower == LowerString(search)
    IN  \/ InString(search_lower, LowerString(p.key))
        \/ InString(search_lower, LowerString(p.label))
        \/ InString(search_lower, LowerString(p.description))

\* the search filter of catalog: the permissions of the listed modules are filtered,
\* then a module stays when it has permissions left or one of its submodules has
\* permissions
FilterSearch(ms, search) ==
    LET filtered == [i \in DOMAIN ms |->
                        [ms[i] EXCEPT !.permissions =
                            SelectSeq(ms[i].permissions,
                                      LAMBDA p : MatchesSearch(p, search))]]
    IN  SelectSeq(filtered,
                  LAMBDA m : \/ m.permissions # <<>>
                             \/ \E j \in DOMAIN m.submodules :
                                    m.submodules[j].permissions # <<>>)

\* the modules of the catalog after the module, type and active_only filters
FilterBeforeSearch(ms, module_filter, type_filter, active_only) ==
    LET a == IF Falsy(module_filter) THEN ms ELSE FilterModule(ms, module_filter)
        b == IF Falsy(type_filter) THEN a ELSE FilterType(a, type_filter)
    IN  IF active_only THEN FilterActive(b) ELSE b

\* GET /api/permissions/catalog/ of an authenticated user, with its query parameters
Catalog(module_filter, type_filter, active_only, search) ==
    \E b \in {BuildCatalog(cache, upr_permissions, modules)} :
    \E before \in {FilterBeforeSearch(b.catalog.modules, module_filter, type_filter,
                                      active_only)} :
    \E after \in {IF Falsy(search) THEN before ELSE FilterSearch(before, search)} :
        /\ cache' = b.cache
        /\ last' = [op |-> "catalog", module |-> module_filter, type |-> type_filter,
                    active_only |-> active_only, search |-> search,
                    before |-> before,
                    response |-> [b.catalog EXCEPT !.modules = after]]
        /\ UNCHANGED <<modules, permissions, orphan_action, upr_permissions,
                       upr_user_permissions, writes>>

---------------------------------------------------------------------------
(* The catalog over the rows of the store *)

\* <<key, module, capability, label, description, is_active>> of the rows created
CatalogCreates ==
    { <<"users.view", "", "", "View Users", "", TRUE>>,
      <<"users.reset_password", "", "", "Reset Password", "sends a mail", TRUE>>,
      <<"a.b.view", "a.b", "view", "View B", "", TRUE>> }

\* the registrations sync works from: a hierarchical module and a flat one
CatalogRegistrations ==
    { <<"a.b", <<"view">>, <<>>>>, <<"orders", <<"view">>, <<"export">>>> }

CatalogRow(key, module, capability, label) ==
    [key |-> key, module |-> module, capability |-> capability, label |-> label,
     description |-> "", is_active |-> TRUE, is_deprecated |-> FALSE]

\* the rows the table holds when the catalog is first asked for: none, or rows of a
\* module and of a module below it (module is a plain text column, with
\* 'breakdown.visit' as the example of its help text)
CatalogStores ==
    { {},
      { CatalogRow("a.view", "a", "view", "View A"),
        CatalogRow("a.b.export", "a.b", "export", "Export B") } }

ModuleFilters == {None, "a"}
TypeFilters == {None, "crud"}
Searches == {None, "view", "RESET", "mail"}

InitCatalog ==
    /\ modules = NoModules
    /\ permissions = <<>>
    /\ orphan_action = "warn"
    /\ upr_permissions \in CatalogStores
    /\ upr_user_permissions = {}
    /\ cache = [k \in CacheKeys |-> Miss]
    /\ writes = 0
    /\ last = [op |-> "init"]

NextCatalog ==
    \/ \E r \in CatalogRegistrations : RegisterModule(r[1], r[2], r[3])
    \/ \E f \in CatalogCreates : CreatePermission(f[1], f[2], f[3], f[4], f[5], f[6], FALSE)
    \/ Sync(FALSE)
    \/ \E module_filter \in ModuleFilters, type_filter \in TypeFilters,
          active_only \in BOOLEAN, search \in Searches :
            Catalog(module_filter, type_filter, active_only, search)

SpecCatalog == InitCatalog /\ [][NextCatalog]_vars

\* the permissions listed by a serialized module and by the modules below it
RECURSIVE ShownPermissions(_)
ShownPermissions(m) ==
    Range(m.permissions)
        \cup UNION {ShownPermissions(m.submodules[j]) : j \in DOMAIN m.submodules}

\* the term occurs in the key, the label or the description, whatever the case
ContainsTerm(p, term) ==
    \E field \in {p.key, p.label, p.description} :
        InString(LowerString(term), LowerString(field))

\* a module with a matching permission of its own, or with such a module below it
RECURSIVE HasMatch(_, _)
HasMatch(m, term) ==
    \/ \E p \in Range(m.permissions) : ContainsTerm(p, term)
    \/ \E j \in DOMAIN m.submodules : HasMatch(m.submodules[j], term)

IsSearch == last.op = "catalog" /\ ~Falsy(last.search)

---------------------------------------------------------------------------
(* The management commands: management/commands/upr_sync.py, upr_validate.py *)

\* the orphan policy upr_sync leaves on the registry: --clean-orphans sets 'delete',
\* no --force sets 'warn', --force alone keeps what is configured
CommandOrphanAction(configured, force, clean_orphans) ==
    IF clean_orphans THEN "delete"
    ELSE IF ~force THEN "warn"
    ELSE configured

\* call_command('upr_sync', ...) with --dry-run, --force, --clean-orphans
UprSync(dry_run, force, clean_orphans) ==
    \E policy \in {CommandOrphanAction(orphan_action, force, clean_orphans)} :
    \E errors \in {ValidateErrors(permissions)} :
        /\ orphan_action' = policy
        /\ IF errors # <<>> /\ ~force
           THEN /\ last' = [op |-> "upr_sync", dry_run |-> dry_run, force |-> force,
                            clean_orphans |-> clean_orphans, raised |-> "CommandError"]
                /\ UNCHANGED <<upr_permissions, upr_user_permissions, cache>>
           ELSE IF ~SyncWrites(dry_run)
           THEN /\ last' = [op |-> "upr_sync", dry_run |-> dry_run, force |-> force,
                            clean_orphans |-> clean_orphans, raised |-> "none"]
                /\ UNCHANGED <<upr_permissions, upr_user_permissions, cache>>
           ELSE \E plan \in {PlanSync(permissions, upr_permissions)} :
                \E e \in {ExecuteSync(plan, policy, upr_permissions,
                                      upr_user_permissions, cache)} :
                /\ upr_permissions' =
                        TransactionAtomic(upr_permissions, e.rows, e.raised)
                /\ upr_user_permissions' =
                        TransactionAtomic(upr_user_permissions, e.grants, e.raised)
                /\ cache' = IF e.raised = "none"
                            THEN CacheDelete(e.cache, CATALOG_KEY) ELSE e.cache
                /\ last' = [op |-> "upr_sync", dry_run |-> dry_run, force |-> force,
                            clean_orphans |-> clean_orphans,
                            raised |-> IF e.raised = "none" THEN "none"
                                       ELSE "CommandError"]
        /\ UNCHANGED <<modules, permissions, writes>>

\* _validate_database of upr_validate: [errors, warnings] as sets of keys
ValidateDatabase(perms, rows) ==
    LET defined_keys == DictKeys(perms)
        db_keys == Keys(rows)
    IN  [orphaned |-> db_keys \ defined_keys,
         missing |-> defined_keys \ db_keys,
         invalid |-> {k \in db_keys : ~Contains(k, ".")}]

\* call_command('upr_validate')
UprValidate ==
    \E registry_errors \in {ValidateErrors(permissions)} :
    \E db \in {ValidateDatabase(permissions, upr_permissions)} :
    \E failed \in {registry_errors # <<>> \/ db.missing # {} \/ db.invalid # {}} :
        /\ last' = [op |-> "upr_validate", errors |-> registry_errors, db |-> db,
                    raised |-> IF failed THEN "CommandError" ELSE "none"]
        /\ UNCHANGED <<modules, permissions, orphan_action, upr_permissions,
                       upr_user_permissions, cache, writes>>

\* the read accessors of the registry: get_all_permissions, get_all_permission_keys,
\* get_module_permissions
ReadRegistry(module) ==
    /\ last' = [op |-> "read", all |-> permissions,
                keys |-> GetAllPermissionKeys,
                of_module |-> GetModulePermissions(permissions, module)]
    /\ UNCHANGED <<modules, permissions, orphan_action, upr_permissions,
                   upr_user_permissions, cache, writes>>

\* registrations and rows of the command tests: a module, and a row no module declares
CommandRegistrations == { <<"users", <<"view", "create">>, <<"reset_password">>>> }
CommandCreates == { <<"users.view", "Old Label">>, <<"old.permission", "Old Permission">> }

InitCommands ==
    /\ modules = NoModules
    /\ permissions = <<>>
    /\ orphan_action \in {"warn", "error", "delete"}
    /\ upr_permissions = {}
    /\ upr_user_permissions = {}
    /\ cache = [k \in CacheKeys |-> Miss]
    /\ writes = 0
    /\ last = [op |-> "init"]

NextCommands ==
    \/ \E r \in CommandRegistrations : RegisterModule(r[1], r[2], r[3])
    \/ \E f \in CommandCreates : CreatePermission(f[1], "", "", f[2], "", TRUE, FALSE)
    \/ Validate
    \/ \E dry_run \in BOOLEAN : Sync(dry_run)
    \/ \E module \in {"users", "orders"} : ReadRegistry(module)
    \/ \E dry_run \in BOOLEAN, force \in BOOLEAN, clean_orphans \in BOOLEAN :
            UprSync(dry_run, force, clean_orphans)
    \/ UprValidate

SpecCommands == InitCommands /\ [][NextCommands]_vars

\* C22: only register_module changes the registry: validate, sync (dry-run or not), the
\* read accessors and the upr_sync and upr_validate commands leave the module map, the
\* permission map and orphan_action as they were, so that a sync after a command runs
\* under the configured orphan policy
C22_RegistryFrame ==
    [][last'.op # "register_module" => registryVars' = registryVars]_vars

---------------------------------------------------------------------------
(* The plan of sync *)

\* the definition of the registry with the given key
DefinitionOf(key) == CHOOSE d \in Range(permissions) : d.key = key

\* C23: the create list of a sync plan holds exactly the definitions whose key has no
\* row; the update list exactly the definitions whose key has a row that differs in
\* label or in description, or is inactive, or whose is_deprecated differs from
\* (type = 'deprecated'); the orphaned list exactly the rows whose key is not in the
\* registry; no key is in two lists (or twice in one)
C23_SyncPlan ==
    last.op = "sync" =>
        LET defined == {d.key : d \in Range(permissions)}
            stored == {r.key : r \in last.before}
            create == Range(last.plan.create)
            update == Range(last.plan.update)
            orphaned == last.plan.orphaned
        IN  /\ create = defined \ stored
            /\ update =
                 {k \in defined \cap stored :
                    LET r == CHOOSE x \in last.before : x.key = k
                        d == DefinitionOf(k)
                    IN  \/ r.label # d.label
                        \/ r.description # d.description
                        \/ ~r.is_active
                        \/ r.is_deprecated # (d.type = "deprecated")}
            /\ orphaned = stored \ defined
            /\ create \cap update = {}
            /\ create \cap orphaned = {}
            /\ update \cap orphaned = {}
            /\ Len(last.plan.create) = Cardinality(create)
            /\ Len(last.plan.update) = Cardinality(update)

\* a sync whose plan creates, updates (a row that is only inactive) and finds an orphan
C23_Witness ==
    /\ last.op = "sync"
    /\ last.plan.create # <<>>
    /\ last.plan.update = <<"users.view">>
    /\ last.plan.orphaned = {"users.old_action"}
    /\ \E r \in last.before :
          r.key = "users.view" /\ r.label = "View Users" /\ ~r.is_active

---------------------------------------------------------------------------
(* A resolve racing with a grant or a revoke for the same principal.  The two requests
   run in two threads (or worker processes) over the same table and the same cache;
   each step below is one access of the table or the cache, and a schedule says in
   which order the steps of the two requests are taken. *)

\* the schedules of a request of n steps ("a") with a request of m steps ("b")
Interleavings(n, m) ==
    {s \in [1..(n + m) -> {"a", "b"}] : Cardinality({i \in 1..(n + m) : s[i] = "a"}) = n}

\* the steps of get_user_permissions: cache.get; _load_user_permissions on a miss;
\* cache.set.  t.pc counts the steps taken, t.perms is the local variable permissions
GetUserPermissionsStep(t, user_id, rows) ==
    LET cache_key == UserCacheKey(user_id)
    IN  CASE t.pc = 0 ->
                IF t.cache[cache_key] = Miss THEN [t EXCEPT !.pc = 1]
                ELSE [t EXCEPT !.pc = 3, !.perms = t.cache[cache_key][1]]
          [] t.pc = 1 ->
                [t EXCEPT !.pc = 2, !.perms = LoadUserPermissions(user_id, t.grants, rows)]
          [] t.pc = 2 ->
                [t EXCEPT !.pc = 3, !.cache = CacheSet(t.cache, cache_key, t.perms)]
          [] OTHER -> t

\* the steps of a grant (UserPermission.objects.create) or a revoke (delete) that
\* changes the table: the row is written, then the post_save / post_delete handler
\* deletes the cache entry of the user
GrantWriteStep(t, user_id, key, kind) ==
    CASE t.wpc = 0 ->
            [t EXCEPT !.wpc = 1,
                      !.grants = IF kind = "grant" THEN t.grants \cup {Grant(user_id, key)}
                                 ELSE t.grants \ {Grant(user_id, key)}]
      [] t.wpc = 1 ->
            [t EXCEPT !.wpc = 2,
                      !.cache = invalidate_user_permission_cache(t.cache, user_id)]
      [] OTHER -> t

\* the two requests run to their end under a schedule, from step i of the schedule
RECURSIVE RunResolveAndWrite(_, _, _, _, _, _, _)
RunResolveAndWrite(t, schedule, i, user_id, key, kind, rows) ==
    IF i > Len(schedule) THEN t
    ELSE CHOOSE end \in
            {RunResolveAndWrite(
                IF schedule[i] = "a" THEN GetUserPermissionsStep(now, user_id, rows)
                ELSE GrantWriteStep(now, user_id, key, kind),
                schedule, i + 1, user_id, key, kind, rows) : now \in {t}} : TRUE

\* a resolve for user_id and a grant or revoke of key for user_id, run concurrently
ResolveRacingWrite(user_id, key, kind, schedule) ==
    /\ key \in Keys(upr_permissions)
    /\ (kind = "grant") <=> (Grant(user_id, key) \notin upr_user_permissions)
    /\ \E t \in {RunResolveAndWrite(
                    [grants |-> upr_user_permissions, cache |-> cache, pc |-> 0,
                     wpc |-> 0, perms |-> {}],
                    schedule, 1, user_id, key, kind, upr_permissions)} :
           /\ upr_user_permissions' = t.grants
           /\ cache' = t.cache
           /\ last' = [op |-> "resolve_racing_write", user |-> user_id, key |-> key,
                       kind |-> kind, schedule |-> schedule, perms |-> t.perms,
                       cache_before |-> cache[UserCacheKey(user_id)]]
    /\ UNCHANGED <<modules, permissions, orphan_action, upr_permissions, writes>>

RaceKeys == {"users.view", "users.create"}

InitRace ==
    /\ modules = NoModules
    /\ permissions = <<>>
    /\ orphan_action = "warn"
    /\ upr_permissions = {}
    /\ upr_user_permissions = {}
    /\ cache = [k \in CacheKeys |-> Miss]
    /\ writes = 0
    /\ last = [op |-> "init"]

NextRace ==
    \/ \E k \in RaceKeys : CreatePermission(k, "", "", "Label", "", TRUE, FALSE)
    \/ \E u \in Users, k \in RaceKeys : CreateUserPermission(u, k)
    \/ \E u \in Users, k \in RaceKeys : RevokePermission(u, k)
    \/ \E u \in Users, k \in RaceKeys : Check(u, k)
    \/ \E k \in CacheKeys : CacheExpire(k)
    \/ \E u \in Users, k \in RaceKeys, kind \in {"grant", "revoke"},
          schedule \in Interleavings(3, 2) :
            ResolveRacingWrite(u, k, kind, schedule)

SpecRace == InitRace /\ [][NextRace]_vars

\* C24: after a resolve for a principal (miss, load, set) and a concurrent grant or
\* revoke for the same principal (write, then cache delete) have both completed,
\* whatever the interleaving, the cached grant set of the principal is absent or equals
\* the active grants of the principal in the table
C24_RacingPopulationSafe ==
    last.op = "resolve_racing_write" =>
        \/ cache[UserCacheKey(last.user)] = Miss
        \/ cache[UserCacheKey(last.user)] = Hit(ActiveGrants(last.user))

---------------------------------------------------------------------------
(* A catalog request racing with a sync.  sync runs inside transaction.atomic: its
   writes are in the table for others when the function has returned (commit), while
   its cache.delete happens inside the function. *)

\* the steps of _build_catalog: cache.get; the queries that build the catalog;
\* cache.set.  t.rows is the committed table, catalogs[rows] the catalog built from
\* the table rows
BuildCatalogStep(t, catalogs) ==
    CASE t.cpc = 0 ->
            IF t.cache[CATALOG_KEY] = Miss THEN [t EXCEPT !.cpc = 1]
            ELSE [t EXCEPT !.cpc = 3, !.catalog = t.cache[CATALOG_KEY][1]]
      [] t.cpc = 1 ->
            [t EXCEPT !.cpc = 2,
                      !.catalog = catalogs[t.rows]]
      [] t.cpc = 2 ->
            [t EXCEPT !.cpc = 3, !.cache = CacheSet(t.cache, CATALOG_KEY, t.catalog)]
      [] OTHER -> t

\* what _execute_sync does inside the transaction of a sync that starts from the
\* given tables (no other request writes them meanwhile): the tables as it leaves
\* them, what it raised, and the cache keys its signal handlers delete
SyncExecution(definitions, policy, rows, grants) ==
    CHOOSE execution \in
        {[rows |-> e.rows, grants |-> e.grants, raised |-> e.raised,
          evicted |-> {k \in CacheKeys : e.cache[k] = Miss}] :
            e \in {ExecuteSync(PlanSync(definitions, rows), policy, rows, grants,
                               [k \in CacheKeys |-> Hit({})])}} : TRUE

\* the steps of sync(dry_run=False): load the rows and plan; _execute_sync inside the
\* transaction (the signal handlers act on the cache at once); cache.delete of the
\* catalog; commit, or rollback when _execute_sync raised.  e is SyncExecution
SyncStep(t, e) ==
    CASE t.spc = 0 ->
            [t EXCEPT !.spc = 1]
      [] t.spc = 1 ->
            [t EXCEPT !.spc = IF e.raised = "none" THEN 2 ELSE 3,
                      !.cache = [k \in CacheKeys |->
                                    IF k \in e.evicted THEN Miss ELSE t.cache[k]]]
      [] t.spc = 2 ->
            [t EXCEPT !.spc = 3, !.cache = CacheDelete(t.cache, CATALOG_KEY)]
      [] t.spc = 3 ->
            [t EXCEPT !.spc = 4,
                      !.rows = TransactionAtomic(t.rows, e.rows, e.raised),
                      !.grants = TransactionAtomic(t.grants, e.grants, e.raised)]
      [] OTHER -> t

\* the two requests run to their end under a schedule, from step i of the schedule
RECURSIVE RunCatalogAndSync(_, _, _, _, _)
RunCatalogAndSync(t, schedule, i, e, catalogs) ==
    IF i > Len(schedule) THEN t
    ELSE CHOOSE end \in
            {RunCatalogAndSync(
                IF schedule[i] = "a" THEN BuildCatalogStep(now, catalogs)
                ELSE SyncStep(now, e),
                schedule, i + 1, e, catalogs) : now \in {t}} : TRUE

\* the catalog _build_catalog builds from each of the given tables
CatalogsOf(tables, mods) ==
    [rows \in tables |-> BuildCatalog([k \in CacheKeys |-> Miss], rows, mods).catalog]

\* a catalog request and registry.sync(), run concurrently under some schedule
CatalogRacingSync ==
    \E e \in {SyncExecution(permissions, orphan_action, upr_permissions,
                            upr_user_permissions)} :
    \E catalogs \in {CatalogsOf({upr_permissions, e.rows}, modules)} :
    \E schedule \in Interleavings(3, 4) :
    \E t \in {RunCatalogAndSync(
                [rows |-> upr_permissions, grants |-> upr_user_permissions,
                 cache |-> cache, cpc |-> 0, spc |-> 0,
                 catalog |-> [modules |-> <<>>, total_permissions |-> 0,
                              total_modules |-> 0]],
                schedule, 1, e, catalogs)} :
        /\ upr_permissions' = t.rows
        /\ upr_user_permissions' = t.grants
        /\ cache' = t.cache
        /\ last' = [op |-> "catalog_racing_sync", schedule |-> schedule,
                    raised |-> e.raised, response |-> t.catalog,
                    before |-> upr_permissions]
        /\ UNCHANGED <<modules, permissions, orphan_action, writes>>

CatalogRaceRegistrations == { <<"users", <<"view">>, <<>>>> }
CatalogRaceCreates == { <<"users.view", "Old Label">>, <<"old.permission", "Old Permission">> }

InitCatalogRace ==
    /\ modules = NoModules
    /\ permissions = <<>>
    /\ orphan_action \in {"warn", "delete"}
    /\ upr_permissions = {}
    /\ upr_user_permissions = {}
    /\ cache = [k \in CacheKeys |-> Miss]
    /\ writes = 0
    /\ last = [op |-> "init"]

NextCatalogRace ==
    \/ \E r \in CatalogRaceRegistrations : RegisterModule(r[1], r[2], r[3])
    \/ \E f \in CatalogRaceCreates : CreatePermission(f[1], "", "", f[2], "", TRUE, FALSE)
    \/ Sync(FALSE)
    \/ Catalog(None, None, FALSE, None)
    \/ CatalogRacingSync

SpecCatalogRace == InitCatalogRace /\ [][NextCatalogRace]_vars

\* the catalog as built from the rows of the table
CatalogOfStore ==
    BuildCatalog([k \in CacheKeys |-> Miss], upr_permissions, modules).catalog

\* C25: when a sync that wrote (not a dry run) has completed successfully, the catalog
\* cache entry is absent or is the catalog of the table as the sync left it, also when
\* a catalog request built and cached the catalog while the sync ran
C25_CatalogInvalidatedBySync ==
    (/\ last.op \in {"sync", "catalog_racing_sync"}
     /\ last.raised = "none"
     /\ last.op = "sync" => ~last.dry_run)
    => \/ cache[CATALOG_KEY] = Miss
       \/ cache[CATALOG_KEY] = Hit(CatalogOfStore)

---------------------------------------------------------------------------
(* Two syncs racing.  Each sync runs in its own transaction (transaction.atomic): its
   statements see the committed tables and its own writes, other transactions see the
   committed tables only, and its writes reach the committed tables at commit.  A
   statement that writes a row another open transaction has written waits for that
   transaction to end. *)

Syncs == {"A", "B"}

\* the tables after the writes of a transaction, from write i on.  A write is a created
\* row, an update of the row of a key, or the delete of the row of a key (which
\* cascades to its grants)
RECURSIVE ApplyWrites(_, _, _)
ApplyWrites(tables, ws, i) ==
    IF i > Len(ws) THEN tables
    ELSE CHOOSE end \in
            {ApplyWrites(
                CASE w.op = "create" ->
                        [tables EXCEPT !.rows = tables.rows \cup {w.row}]
                  [] w.op = "update" ->
                        [tables EXCEPT !.rows =
                            {IF r.key = w.key
                             THEN [r EXCEPT !.label = w.label,
                                            !.description = w.description,
                                            !.is_active = TRUE]
                             ELSE r : r \in tables.rows}]
                  [] OTHER ->
                        [rows |-> {r \in tables.rows : r.key # w.key},
                         grants |-> {g \in tables.grants : g.permission # w.key}],
                ws, i + 1) : w \in {ws[i]}} : TRUE

\* the keys a sequence of writes touches
WrittenKeys(ws) ==
    {IF ws[i].op = "create" THEN ws[i].row.key ELSE ws[i].key : i \in DOMAIN ws}

\* the writes of the three loops of _execute_sync on the tables the transaction sees:
\* [writes, raised]
CreateWrites(create, view) ==
    CHOOSE result \in
        {[writes |-> [i \in 1..Len(cr.created) |->
                        [op |-> "create", row |-> RowOf(cr.rows, cr.created[i])]],
          raised |-> cr.raised] :
            cr \in {ExecuteCreates(create, 1, view.rows, <<>>)}} : TRUE

UpdateWrites(update) ==
    [writes |-> [i \in DOMAIN update |->
                    [op |-> "update", key |-> update[i].key, label |-> update[i].label,
                     description |-> update[i].description]],
     raised |-> "none"]

OrphanWrites(orphaned, policy) ==
    CASE policy = "delete" ->
            [writes |-> [i \in 1..Cardinality(orphaned) |-> 
                            [op |-> "delete", key |-> SortStrings(Keys(orphaned))[i]]],
             raised |-> "none"]
      [] policy = "error" /\ orphaned # {} ->
            [writes |-> <<>>, raised |-> "ValidationError"]
      [] OTHER -> [writes |-> <<>>, raised |-> "none"]

\* the keys the next statement group of a transaction writes (none for plan and commit)
PendingKeys(tx, policy) ==
    CASE tx.pc = 1 -> {tx.plan.create[i].key : i \in DOMAIN tx.plan.create}
      [] tx.pc = 2 -> {tx.plan.update[i].key : i \in DOMAIN tx.plan.update}
      [] tx.pc = 3 -> IF policy = "delete" THEN Keys(tx.plan.orphaned) ELSE {}
      [] OTHER -> {}

\* faulty variant: the writes of an open transaction are read by everybody
VisibleUncommitted(committed, ws) == ApplyWrites(committed, ws, 1)

\* the tables other requests read while transactions with the writes ws are open
Visible(committed, ws) == committed

\* sync x can take its next step: it has not ended and does not wait for the other
CanStep(t, x, policy) ==
    /\ t.tx[x].pc < 5
    /\ \A y \in Syncs \ {x} :
          t.tx[y].pc < 5 => PendingKeys(t.tx[x], policy) \cap WrittenKeys(t.tx[y].ws) = {}

\* the writes of the open transactions other than x
RECURSIVE OpenWrites(_, _)
OpenWrites(t, others) ==
    IF others = {} THEN <<>>
    ELSE LET y == CHOOSE z \in others : TRUE
         IN  (IF t.tx[y].pc < 5 THEN t.tx[y].ws ELSE <<>>) \o OpenWrites(t, others \ {y})

\* one step of sync x: load the rows and plan; the create loop; the update loop; the
\* orphan loop; commit (or rollback when a loop raised).  Each step is recorded with
\* the writes the other sync has pending and with the tables a reader outside the two
\* transactions sees before and after it
SyncTxStep(t, x, definitions, policy) ==
    CHOOSE next \in
      {CHOOSE after \in
         {[now EXCEPT !.trace = t.trace \cup
             {[by |-> x, pc |-> t.tx[x].pc, ws |-> now.tx[x].ws,
               raised |-> now.tx[x].raised,
               pending |-> OpenWrites(t, Syncs \ {x}),
               before |-> Visible(t.committed, OpenWrites(t, Syncs)),
               observed |-> Visible(now.committed, OpenWrites(now, Syncs))]}] :
          now \in
            {CASE t.tx[x].pc = 0 ->
                    [t EXCEPT !.tx[x].pc = 1,
                              !.tx[x].plan = PlanSync(definitions, view.rows)]
               [] t.tx[x].pc = 1 ->
                    CHOOSE r \in
                        {[t EXCEPT !.tx[x].pc = IF c.raised = "none" THEN 2 ELSE 4,
                                   !.tx[x].ws = t.tx[x].ws \o c.writes,
                                   !.tx[x].raised = c.raised] :
                            c \in {CreateWrites(t.tx[x].plan.create, view)}} : TRUE
               [] t.tx[x].pc = 2 ->
                    [t EXCEPT !.tx[x].pc = 3,
                              !.tx[x].ws =
                                  t.tx[x].ws \o UpdateWrites(t.tx[x].plan.update).writes]
               [] t.tx[x].pc = 3 ->
                    CHOOSE r \in
                        {[t EXCEPT !.tx[x].pc = 4,
                                   !.tx[x].ws = t.tx[x].ws \o o.writes,
                                   !.tx[x].raised = o.raised] :
                            o \in {OrphanWrites(t.tx[x].plan.orphaned, policy)}} : TRUE
               [] OTHER ->
                    [t EXCEPT !.tx[x].pc = 5,
                              !.committed =
                                  TransactionAtomic(t.committed,
                                      ApplyWrites(t.committed, t.tx[x].ws, 1),
                                      t.tx[x].raised)]}} : TRUE :
       view \in {ApplyWrites(Visible(t.committed, OpenWrites(t, Syncs \ {x})),
                             t.tx[x].ws, 1)}} : TRUE

\* the states the two syncs can end in, over all the orders of their steps
RECURSIVE SyncOutcomes(_, _, _)
SyncOutcomes(t, definitions, policy) ==
    UNION {IF \A x \in Syncs : ~CanStep(now, x, policy) THEN {now}
           ELSE UNION {SyncOutcomes(SyncTxStep(now, x, definitions, policy),
                                    definitions, policy) :
                          x \in {y \in Syncs : CanStep(now, y, policy)}} :
              now \in {t}}

\* two calls of registry.sync() that run concurrently
ConcurrentSyncs ==
    \E t \in SyncOutcomes(
                [committed |-> [rows |-> upr_permissions,
                                grants |-> upr_user_permissions],
                 tx |-> [x \in Syncs |->
                            [pc |-> 0, ws |-> <<>>, raised |-> "none",
                             plan |-> [create |-> <<>>, update |-> <<>>,
                                       orphaned |-> {}]]],
                 trace |-> {}],
                permissions, orphan_action) :
        /\ upr_permissions' = t.committed.rows
        /\ upr_user_permissions' = t.committed.grants
        /\ cache' =
              IF \E x \in Syncs :
                    \/ t.tx[x].raised = "none"
                    \/ \E i \in DOMAIN t.tx[x].ws : t.tx[x].ws[i].op # "update"
              THEN invalidate_permission_cache(
                      InvalidateUsers(cache,
                          {g.user : g \in {h \in upr_user_permissions :
                              \E x \in Syncs : \E i \in DOMAIN t.tx[x].ws :
                                  /\ t.tx[x].ws[i].op = "delete"
                                  /\ t.tx[x].ws[i].key = h.permission}}))
              ELSE cache
        /\ last' = [op |-> "concurrent_syncs", trace |-> t.trace,
                    before |-> [rows |-> upr_permissions,
                                grants |-> upr_user_permissions],
                    raised |-> [x \in Syncs |-> t.tx[x].raised]]
        /\ UNCHANGED <<modules, permissions, orphan_action, writes>>

SyncRaceRegistrations == { <<"users", <<"view", "create">>, <<>>>> }
SyncRaceCreates == { <<"users.view", "Old Label">>, <<"old.permission", "Old Permission">> }

InitSyncRace ==
    /\ modules = NoModules
    /\ permissions = <<>>
    /\ orphan_action \in {"warn", "error", "delete"}
    /\ upr_permissions = {}
    /\ upr_user_permissions = {}
    /\ cache = [k \in CacheKeys |-> Miss]
    /\ writes = 0
    /\ last = [op |-> "init"]

NextSyncRace ==
    \/ \E r \in SyncRaceRegistrations : RegisterModule(r[1], r[2], r[3])
    \/ \E f \in SyncRaceCreates : CreatePermission(f[1], "", "", f[2], "", TRUE, FALSE)
    \/ \E u \in Users : CreateUserPermission(u, "old.permission")
    \/ Sync(FALSE)
    \/ ConcurrentSyncs

SpecSyncRace == InitSyncRace /\ [][NextSyncRace]_vars

---------------------------------------------------------------------------
(* The rows of the Permission table under creations, saves and syncs *)

\* the creations of the model tests, and a key that ends in a newline
PersistCreates == ModelCreates \cup { <<"users.view\n", "", "", "Newline">> }

PersistRegistrations ==
    { <<"users", <<"view">>, <<"export">>>>, <<"a.b", <<"view">>, <<>>>> }

InitPersist ==
    /\ modules = NoModules
    /\ permissions = <<>>
    /\ orphan_action \in {"warn", "delete"}
    /\ upr_permissions = {}
    /\ upr_user_permissions = {}
    /\ cache = [k \in CacheKeys |-> Miss]
    /\ writes = 0
    /\ last = [op |-> "init"]

NextPersist ==
    \/ \E r \in PersistRegistrations : RegisterModule(r[1], r[2], r[3])
    \/ \E c \in PersistCreates :
            CreatePermission(c[1], c[2], c[3], c[4], "", TRUE, FALSE)
    \/ \E row \in upr_permissions : \E instance \in SaveEdits(row) :
            SavePermission(row, instance)
    \/ Sync(FALSE)

SpecPersist == InitPersist /\ [][NextPersist]_vars

\* a creation that supplies a module other than the text before the first dot of its
\* key, or a capability other than the text after it
SuppliedMismatch ==
    /\ last.op = "create_permission"
    /\ Contains(last.key, ".")
    /\ \/ last.module # "" /\ last.module # SplitFirst(last.key)[1]
       \/ last.capability # "" /\ last.capability # SplitFirst(last.key)[2]

\* C27: after any sequence of creations, saves and syncs, every row of the Permission
\* table has a key of two or more dot-separated words over [a-z0-9_], the key is
\* module + "." + capability, and no two rows share a key; a creation whose supplied
\* module or capability does not agree with the key fails and adds no row
C27_PersistedRows ==
    /\ \A r \in upr_permissions :
          /\ WellFormedKey(r.key)
          /\ r.key = r.module \o "." \o r.capability
    /\ \A r1, r2 \in upr_permissions : r1.key = r2.key => r1 = r2
    /\ SuppliedMismatch =>
          /\ last.raised = "ValidationError"
          /\ ~last.existed => last.key \notin Keys(upr_permissions)

---------------------------------------------------------------------------
(* A registration that fails *)

\* C28: when register_module fails on a crud entry outside view, create, update and
\* delete, the module map and the permission map of the registry are what they were
\* before the call: the name is not registered and no permission of the module is
\* present, so that a corrected registration of the same name succeeds
C28_FailedRegistrationLeavesNoTrace ==
    (IsRegisterModule /\ last.raised = "ValidationError")
    => /\ modules = last.before.modules
       /\ permissions = last.before.permissions

---------------------------------------------------------------------------
(* UPRHelper.add_permission and the cache *)

\* C30: after UPRHelper(user).add_permission(keys) the grants of the user are exactly
\* the existing permissions among keys, and the next resolve answers from them: the
\* cached grant set of the user is absent or is the user's active grants, whatever was
\* cached before the call
C30_AddPermissionCoherent ==
    last.op = "add_permission" =>
        /\ {g.permission : g \in {x \in upr_user_permissions : x.user = last.user}}
              = last.keys \cap Keys(upr_permissions)
        /\ \/ cache[UserCacheKey(last.user)] = Miss
           \/ cache[UserCacheKey(last.user)] = Hit(ActiveGrants(last.user))

---------------------------------------------------------------------------
(* A check while the database cannot be reached *)

\* _load_user_permissions when the query raises: the except branch returns set()
LoadUserPermissionsFailed == {}

\* get_user_permissions while the query raises: [perms, cache]; what was loaded (the
\* empty set of the except branch) is cached like any other
GetUserPermissionsStoreDown(c, user_id) ==
    LET cache_key == UserCacheKey(user_id)
    IN  IF c[cache_key] = Miss
        THEN [perms |-> LoadUserPermissionsFailed,
              cache |-> CacheSet(c, cache_key, LoadUserPermissionsFailed)]
        ELSE [perms |-> c[cache_key][1], cache |-> c]

\* resolver.check_permission(user, permission_key) while the database is down
CheckStoreDown(user_id, permission_key) ==
    /\ IF ~IsValidPermissionKey(permission_key)
       THEN /\ cache' = cache
            /\ last' = [op |-> "check_store_down", user |-> user_id,
                        key |-> permission_key, result |-> FALSE, cache_before |-> cache]
       ELSE \E o \in {GetUserPermissionsStoreDown(cache, user_id)} :
            /\ cache' = o.cache
            /\ last' = [op |-> "check_store_down", user |-> user_id,
                        key |-> permission_key, result |-> permission_key \in o.perms,
                        cache_before |-> cache]
    /\ UNCHANGED <<modules, permissions, orphan_action, upr_permissions,
                   upr_user_permissions, writes>>

OutageKeys == {"users.view", "users.create", "users"}

InitOutage ==
    /\ modules = NoModules
    /\ permissions = <<>>
    /\ orphan_action = "warn"
    /\ upr_permissions = {}
    /\ upr_user_permissions = {}
    /\ cache = [k \in CacheKeys |-> Miss]
    /\ writes = 0
    /\ last = [op |-> "init"]

NextOutage ==
    \/ \E k \in OutageKeys \ {"users"} :
            CreatePermission(k, "", "", "Label", "", TRUE, FALSE)
    \/ \E u \in Users, k \in OutageKeys : CreateUserPermission(u, k)
    \/ \E u \in Users, k \in OutageKeys : RevokePermission(u, k)
    \/ \E u \in Users, k \in OutageKeys : Check(u, k)
    \/ \E u \in Users, k \in OutageKeys : CheckStoreDown(u, k)
    \/ \E k \in CacheKeys : CacheExpire(k)

SpecOutage == InitOutage /\ [][NextOutage]_vars

\* C29: a check made while the database can be reached answers from the persisted
\* active grants of the principal, also when an earlier check of the principal was
\* made while the database was down (and answered deny): no grant set cached during
\* the failure is used
C29_StoreFailureDoesNotPoison ==
    (last.op = "check" /\ last.valid)
    => last.result = (last.key \in ActiveGrants(last.user))

===========================================================================
